---- MODULE Spec2Model ----
(***************************************************************************)
(* repomgr: a dashboard that fetches repository metadata (GraphQL through  *)
(* the /api/repos endpoint, or the public REST API), merges it with three  *)
(* locally kept layers (GitHub snapshot, tofu URLs, custom data) and keeps *)
(* them in localStorage.                                                   *)
(*                                                                         *)
(* Modelled sources:                                                       *)
(*   src/src/routes/api/repos/+server.ts   the POST handler                *)
(*   src/unnamed/part_000                  the page (tofuUrls/customUrls)  *)
(*   src/src/routes/+page.svelte           the page (repoUrls, legacy      *)
(*                                         import shim)                    *)
(*                                                                         *)
(* JavaScript values are modelled as follows.  A `string | null` is a      *)
(* string, null being the reserved string Null.  An `object | null` is a   *)
(* record, null being NullObj.  An object with an optional key is a record *)
(* that has or lacks the field.  A text (what localStorage, the clipboard  *)
(* or an HTTP body holds) is a record: [json |-> v, indent |-> n] is a     *)
(* well-formed JSON text that parses to v, [garbage |-> s] is a text that  *)
(* JSON.parse rejects, [raw |-> s] is a plain string.                      *)
(***************************************************************************)
EXTENDS Integers, Sequences, FiniteSets, TLC

VARIABLES
    token,              \* part_000:70
    username,           \* part_000:71
    repos,              \* part_000:72
    loading,            \* part_000:73
    error,              \* part_000:74
    tofuUrls,           \* part_000:77
    classes,            \* part_000:80
    repoClasses,        \* part_000:81
    customUrls,         \* part_000:82
    repoEnabled,        \* part_000:83
    repoDescriptions,   \* part_000:84
    repoUrls,           \* +page.svelte:56 (the legacy page's URL layer)
    imported,           \* the last call of an import function: [fn, text]
    revision,           \* which page runs: "current" (part_000) or "legacy"
    store,              \* window.localStorage
    calls,              \* the fetchRepos invocations, one record per slot
    srv,                \* the POST handler runs, one record per slot
    pageSizes,          \* the node counts the GraphQL remote may put in a page
    clipboard,          \* navigator.clipboard: the text last written to it
    pagination,         \* part_000:102
    sorting,            \* part_000:103
    columnFilters       \* part_000:104, as a record: column id |-> filter value

vars == <<token, username, repos, loading, error, tofuUrls, classes,
          repoClasses, customUrls, repoEnabled, repoDescriptions, repoUrls,
          imported, revision, store, calls, srv, pageSizes,
          clipboard, pagination, sorting, columnFilters>>

\* The clipboard and the state of the table.
tableVars == <<clipboard, pagination, sorting, columnFilters>>

clientVars == <<token, username, repos, loading, error, tofuUrls, classes,
                repoClasses, customUrls, repoEnabled, repoDescriptions,
                repoUrls, imported, revision, store, calls, tableVars>>

(***************************************************************************)
(* Bounds of the model and constants of the program.                       *)
(***************************************************************************)
MaxPages == 3
MaxNodes == 2
MaxCalls == 2
PerPage == 100

Slots == 1..MaxCalls

Null == "<null>"
NullObj == [null |-> TRUE]
NoItem == [none |-> TRUE]
NoResponse == [none |-> TRUE]

Undefined == "<undefined>"

\* JavaScript truthiness of a `string | null | undefined` value.
Truthy(s) == s \notin {Null, Undefined, ""}

(***************************************************************************)
(* Sequence helpers.                                                       *)
(***************************************************************************)
RECURSIVE Flatten(_)
Flatten(ss) == IF ss = <<>> THEN <<>> ELSE Head(ss) \o Flatten(Tail(ss))

Range(s) == {s[i] : i \in 1..Len(s)}

(***************************************************************************)
(* The GraphQL remote (api.github.com/graphql) as the handler sees it.     *)
(* A cursor names a position in the viewer's repository list: null is the  *)
(* start, Cursor(p) is "after page p".  The nodes a page holds are fixed   *)
(* by its position, so a request with a wrong cursor gets the wrong nodes. *)
(***************************************************************************)
Cursor(p) == "c" \o ToString(p)

PosOf(cursor) ==
    IF cursor = Null THEN 1
    ELSE 1 + (CHOOSE p \in 1..(MaxPages + 1) : Cursor(p) = cursor)

OwnerOf(id) == IF id % 2 = 1 THEN "alice" ELSE "bob"
NameOf(id) == "r" \o ToString((id + 1) \div 2)

\* type RepoNode (the fields the page reads; stargazerCount, createdAt,
\* diskUsage, url and homepageUrl are payload that is only copied).
GqlNode(id) ==
    [ name             |-> NameOf(id),
      description      |-> CASE id % 3 = 1 -> "about " \o NameOf(id)
                             [] id % 3 = 2 -> Null
                             [] OTHER      -> "",
      primaryLanguage  |-> CASE id % 3 = 1 -> [name |-> "TypeScript"]
                             [] id % 3 = 2 -> NullObj
                             [] OTHER      -> [name |-> "Go"],
      isPrivate        |-> (id % 4 = 2),
      isFork           |-> (id % 3 = 0),
      owner            |-> [login |-> OwnerOf(id)],
      defaultBranchRef |-> IF id % 2 = 1
                           THEN [target |-> [history |-> [totalCount |-> id]]]
                           ELSE NullObj ]

\* The nodes of the page at position p when it holds n of them.
PageNodes(p, n) == [k \in 1..n |-> GqlNode((p - 1) * MaxNodes + k)]

HttpErrors == {401, 502}
ApiErrors == << [message |-> "Bad credentials"], [message |-> "Rate limited"] >>

GqlData(p, n, more) ==
    [ viewer |-> [ repositories |->
        [ pageInfo |-> [hasNextPage |-> more, endCursor |-> Cursor(p)],
          nodes    |-> PageNodes(p, n) ] ] ]

\* What the remote may answer to a request for the page at position p.
\* The last position the model allows always ends the list.
GqlResponses(p, sizes) ==
    { [ok |-> FALSE, status |-> s] : s \in HttpErrors }
    \cup { [ok |-> TRUE, status |-> 200, result |-> [errors |-> ApiErrors]] }
    \cup { [ok |-> TRUE, status |-> 200,
            result |-> [errors |-> ApiErrors, data |-> GqlData(p, n, FALSE)]]
           : n \in sizes }
    \cup { [ok |-> TRUE, status |-> 200, result |-> <<>>] }
    \cup { [ok |-> TRUE, status |-> 200, result |-> [data |-> GqlData(p, n, more)]]
           : n \in sizes, more \in (IF p < MaxPages THEN BOOLEAN ELSE {FALSE}) }

(***************************************************************************)
(* POST /api/repos  (+server.ts:36-134)                                    *)
(***************************************************************************)
\* +server.ts:119-131: RepoNode -> Repo.  `commits` is undefined when there
\* is no default branch, and json() drops an undefined key.
RepoOfNode(r) ==
    LET base == [ name        |-> r.name,
                  description |-> r.description,
                  language    |-> IF r.primaryLanguage = NullObj THEN Null
                                  ELSE r.primaryLanguage.name,
                  fork        |-> r.isFork,
                  private     |-> r.isPrivate,
                  owner       |-> r.owner ]
    IN IF r.defaultBranchRef = NullObj THEN base
       ELSE [ f \in DOMAIN base \cup {"commits"} |->
                IF f = "commits" THEN r.defaultBranchRef.target.history.totalCount
                ELSE base[f] ]

IdleHandler ==
    [ pc |-> "idle", allRepos |-> <<>>, hasNextPage |-> FALSE, cursor |-> Null,
      sent |-> <<>>, served |-> <<>>, response |-> NoResponse ]

ErrorResponse(status, msg) ==
    [status |-> status, body |-> [repos |-> <<>>, error |-> msg]]

\* +server.ts:133
SuccessResponse(allRepos) ==
    [status |-> 200,
     body |-> [repos |-> [k \in 1..Len(allRepos) |-> RepoOfNode(allRepos[k])]]]

\* +server.ts:37-45: the handler starts on a request whose body holds tok.
PostBegin(h, tok) ==
    IF tok = ""
    THEN [h EXCEPT !.pc = "done",
                   !.response = ErrorResponse(400, "Token required")]
    ELSE [h EXCEPT !.pc = "loop", !.allRepos = <<>>, !.hasNextPage = TRUE,
                   !.cursor = Null]

\* +server.ts:47, 86-94, 118-133: the loop test; one more request, or the
\* success response.
PostLoop(h) ==
    IF h.hasNextPage
    THEN [h EXCEPT !.pc = "await", !.sent = Append(@, h.cursor)]
    ELSE [h EXCEPT !.pc = "done", !.response = SuccessResponse(h.allRepos)]

\* +server.ts:98-102: a non-success HTTP status.
BadStatusLeaky(h, res) ==
    [h EXCEPT !.pc = "done",
              !.response = [status |-> res.status,
                            body |-> [repos |-> h.allRepos,
                                      error |-> "GitHub API error: " \o ToString(res.status)]]]

PostOnBadStatus(h, res) ==
    [h EXCEPT !.pc = "done",
              !.response = ErrorResponse(res.status,
                                         "GitHub API error: " \o ToString(res.status))]

\* +server.ts:106-108: a GraphQL errors array.
ErrorsLastMessage(h, errors) ==
    [h EXCEPT !.pc = "done",
              !.response = ErrorResponse(400, errors[Len(errors)].message)]

PostOnErrors(h, errors) ==
    [h EXCEPT !.pc = "done", !.response = ErrorResponse(400, errors[1].message)]

\* +server.ts:111: `if (!data) break`, which falls through to +server.ts:133.
PostOnNoData(h) ==
    [h EXCEPT !.pc = "done", !.response = SuccessResponse(h.allRepos)]

\* +server.ts:113-115: a page of nodes.
PageReplaces(h, data) ==
    [h EXCEPT !.pc = "loop",
              !.allRepos = data.nodes,
              !.hasNextPage = data.pageInfo.hasNextPage,
              !.cursor = data.pageInfo.endCursor]

PageKeepsCursor(h, data) ==
    [h EXCEPT !.pc = "loop",
              !.allRepos = @ \o data.nodes,
              !.hasNextPage = data.pageInfo.hasNextPage]

PostOnPage(h, data) ==
    [h EXCEPT !.pc = "loop",
              !.allRepos = @ \o data.nodes,
              !.hasNextPage = data.pageInfo.hasNextPage,
              !.cursor = data.pageInfo.endCursor]

\* +server.ts:96-116: what the handler does with the remote's answer res.
PostOnResponse(h, res) ==
    LET h1 == [h EXCEPT !.served = Append(@, res)]
    IN  IF ~res.ok THEN PostOnBadStatus(h1, res)
        ELSE IF "errors" \in DOMAIN res.result /\ Len(res.result.errors) > 0
        THEN PostOnErrors(h1, res.result.errors)
        ELSE IF "data" \notin DOMAIN res.result THEN PostOnNoData(h1)
        ELSE PostOnPage(h1, res.result.data.viewer.repositories)

(***************************************************************************)
(* The handler's steps.  A handler run lives in a slot; the remote's       *)
(* answer is the environment's choice.                                     *)
(***************************************************************************)
Tokens == {"", "ghp_x"}

\* A request reaches the endpoint (any HTTP client; the page sends one from
\* fetchRepos, see FetchClick).
PostStart ==
    /\ srv[1].pc \in {"idle", "done"}
    /\ \E tok \in Tokens : srv' = [srv EXCEPT ![1] = PostBegin(IdleHandler, tok)]
    /\ UNCHANGED <<clientVars, pageSizes>>

PostStep(i) ==
    /\ srv[i].pc = "loop"
    /\ srv' = [srv EXCEPT ![i] = PostLoop(srv[i])]
    /\ UNCHANGED <<clientVars, pageSizes>>

PostAnswer(i) ==
    /\ srv[i].pc = "await"
    /\ \E res \in GqlResponses(PosOf(srv[i].cursor), pageSizes) :
          srv' = [srv EXCEPT ![i] = PostOnResponse(srv[i], res)]
    /\ UNCHANGED <<clientVars, pageSizes>>

(***************************************************************************)
(* localStorage and JSON texts.                                            *)
(***************************************************************************)
\* JSON.stringify(v, null, indent) of a value that holds no undefined.
Stringify(v, indent) == [json |-> v, indent |-> indent]

IsJson(text) == "json" \in DOMAIN text

\* JSON.parse of a well-formed text (it throws on any other).
Parse(text) == text.json

EmptyObj == <<>>

\* obj[k] = v on a plain object.
Put(obj, k, v) == [x \in DOMAIN obj \cup {k} |-> IF x = k THEN v ELSE obj[x]]

\* delete obj[k]
Del(obj, k) == [x \in DOMAIN obj \ {k} |-> obj[x]]

EmptyStore ==
    [ repomgr_token |-> NoItem, repomgr_username |-> NoItem,
      repomgr_github |-> NoItem, repomgr_tofu_urls |-> NoItem,
      repomgr_custom |-> NoItem, repomgr_repos |-> NoItem,
      repomgr_classes |-> NoItem, repomgr_repo_classes |-> NoItem,
      repomgr_repo_urls |-> NoItem, repomgr_repo_enabled |-> NoItem,
      repomgr_repo_descriptions |-> NoItem ]

persistGithubClearing(st, tok, user, rs) ==
    [EmptyStore EXCEPT !.repomgr_token = [raw |-> tok],
                       !.repomgr_username = [raw |-> user],
                       !.repomgr_github = Stringify(rs, 0)]

\* part_000:356-360
persistGithub(st, tok, user, rs) ==
    [st EXCEPT !.repomgr_token = [raw |-> tok],
               !.repomgr_username = [raw |-> user],
               !.repomgr_github = Stringify(rs, 0)]

\* +page.svelte:326-330
persist(st, tok, user, rs) ==
    [st EXCEPT !.repomgr_token = [raw |-> tok],
               !.repomgr_username = [raw |-> user],
               !.repomgr_repos = Stringify(rs, 0)]

\* part_000:362-364
persistTofuUrls(st, tofu) == [st EXCEPT !.repomgr_tofu_urls = Stringify(tofu, 0)]

\* part_000:366-371
CustomBundle(cl, rc, cu, re, rd) ==
    [classes |-> cl, repoClasses |-> rc, customUrls |-> cu, repoEnabled |-> re,
     repoDescriptions |-> rd]

persistCustomNoDescriptions(st, cl, rc, cu, re, rd) ==
    [st EXCEPT !.repomgr_custom = Stringify(CustomBundle(cl, rc, cu, re, EmptyObj), 0)]

\* part_000:366-371
persistCustom(st, cl, rc, cu, re, rd) ==
    [st EXCEPT !.repomgr_custom = Stringify(CustomBundle(cl, rc, cu, re, rd), 0)]

annotVars == <<tofuUrls, classes, repoClasses, customUrls, repoEnabled,
               repoDescriptions, repoUrls, imported, revision>>

NoImport == [fn |-> "none", text |-> NoItem]

(***************************************************************************)
(* The table (part_000:102-105, 171-336).  The page hands the record list, *)
(* the column definitions and its pagination, sorting and columnFilters    *)
(* state to the table library.  The filter functions of the language, type *)
(* and class columns are the page's; how the library combines the column   *)
(* filters and how it keeps the page index in range is modelled from the   *)
(* specification.  The name filter (a substring test) is left out.         *)
(***************************************************************************)
PageSize == 200

\* part_000:98-100
repoKey(r) == r.owner.login \o "/" \o r.name

\* part_000:123-125
getType(r) == IF r.fork THEN "Fork" ELSE IF r.private THEN "Private" ELSE "Public"

NoFilters == [owner |-> Undefined, language |-> Undefined, type |-> Undefined,
              class |-> Undefined]

\* part_000:222
languageFilterFn(row, filterValue) == row.language = filterValue

typeFilterFnPublicSources(row, filterValue) ==
    IF filterValue = "Sources" THEN getType(row) = "Public"
    ELSE getType(row) = filterValue

\* part_000:230-236
typeFilterFn(row, filterValue) ==
    IF filterValue = "Sources" THEN getType(row) \in {"Public", "Private"}
    ELSE getType(row) = filterValue

classFilterFnNoneIsAbsent(row, filterValue) ==
    IF filterValue = "(none)" THEN repoKey(row) \notin DOMAIN repoClasses
    ELSE repoKey(row) \in DOMAIN repoClasses /\ repoClasses[repoKey(row)] = filterValue

\* part_000:270-274
classFilterFn(row, filterValue) ==
    LET cls == IF repoKey(row) \in DOMAIN repoClasses THEN repoClasses[repoKey(row)]
               ELSE ""
    IN  IF filterValue = "(none)" THEN cls = "" ELSE cls = filterValue

\* The owner column has no filter function of its own: owner equality.
ownerFilterFn(row, filterValue) == row.owner.login = filterValue

\* A record passes when it passes every column filter that is set.
Passes(row, filters) ==
    /\ filters.owner # Undefined => ownerFilterFn(row, filters.owner)
    /\ filters.language # Undefined => languageFilterFn(row, filters.language)
    /\ filters.type # Undefined => typeFilterFn(row, filters.type)
    /\ filters.class # Undefined => classFilterFn(row, filters.class)

\* The positions of the records of rs that pass: the filtered set.
FilteredAt(rs, filters) == {k \in 1..Len(rs) : Passes(rs[k], filters)}

\* ceil(n / pageSize)
PageCountOf(n) == (n + PageSize - 1) \div PageSize

\* The pagination state once the filtered set holds n records: a page index
\* past the last page falls back to the last valid page.
ClampedPagination(pg, n) ==
    IF pg.pageIndex >= PageCountOf(n)
    THEN [pg EXCEPT !.pageIndex = IF n = 0 THEN 0 ELSE PageCountOf(n) - 1]
    ELSE pg

\* The pagination state after the record list became rs or the filters
\* became filters.
RepaginatedFor(rs, filters) ==
    ClampedPagination(pagination, Cardinality(FilteredAt(rs, filters)))

(***************************************************************************)
(* fetchRepos  (part_000:460-498)                                          *)
(***************************************************************************)
\* The REST remote: page p of /users/{username}/repos?per_page=100.  Every
\* repository of the list belongs to the user asked for.
RestRepo(id, login) ==
    [ name        |-> "r" \o ToString(id),
      description |-> CASE id % 3 = 1 -> "about r" \o ToString(id)
                        [] id % 3 = 2 -> Null
                        [] OTHER      -> "",
      language    |-> IF id % 2 = 0 THEN Null ELSE "Go",
      fork        |-> (id % 3 = 0),
      private     |-> FALSE,
      owner       |-> [login |-> login] ]

RestPage(p, n, login) == [k \in 1..n |-> RestRepo((p - 1) * PerPage + k, login)]

\* The sizes a page short of per_page may have.
ShortSizes == {0, PerPage - 1}

\* What the remote may answer to the request for page p.  The last page
\* the model allows is always short.
RestResponses(p, login) ==
    { [net |-> FALSE] }
    \cup { [net |-> TRUE, ok |-> FALSE, status |-> s] : s \in HttpErrors }
    \cup { [net |-> TRUE, ok |-> TRUE, status |-> 200, data |-> RestPage(p, n, login)]
           : n \in ShortSizes \cup (IF p < MaxPages THEN {PerPage} ELSE {}) }

\* One fetchRepos invocation: where it is (pc: idle, api, rest), how its
\* last run ended (outcome: none, ok, fail; msg: the Error's message), the
\* branch it took (path: api, rest), the user of its baseUrl, its local
\* allRepos and page, and the pages it asked of the REST remote and what it
\* got.  On the token path allRepos holds result.repos.
IdleCall ==
    [ pc |-> "idle", outcome |-> "none", msg |-> "", path |-> "none",
      user |-> "", allRepos |-> <<>>, page |-> 0, asked |-> <<>>, got |-> <<>> ]

\* persistGithub() on the current page, persist() on the legacy one
\* (part_000:490, 507, 511; +page.svelte:460, 476, 480).
SaveFetched(list) ==
    IF revision = "current"
    THEN persistGithub(store, token, username, list)
    ELSE persist(store, token, username, list)

\* part_000:491 then 496: the try block ends; the list is already assigned.
FetchSucceed(list) ==
    /\ repos' = list
    /\ pagination' = RepaginatedFor(list, columnFilters)
    /\ store' = SaveFetched(list)
    /\ loading' = FALSE
    /\ UNCHANGED error

FetchFailKeepingList(msg) ==
    /\ error' = msg
    /\ loading' = FALSE
    /\ UNCHANGED <<repos, pagination, store>>

FetchFailClearingSnapshot(msg) ==
    /\ error' = msg
    /\ repos' = <<>>
    /\ pagination' = RepaginatedFor(<<>>, columnFilters)
    /\ loading' = FALSE
    /\ store' = persistGithub(store, token, username, <<>>)

FetchFailStuck(msg) ==
    /\ error' = msg
    /\ repos' = <<>>
    /\ pagination' = RepaginatedFor(<<>>, columnFilters)
    /\ UNCHANGED <<loading, store>>

\* part_000:492-496: catch and finally.
FetchFail(msg) ==
    /\ error' = msg
    /\ repos' = <<>>
    /\ pagination' = RepaginatedFor(<<>>, columnFilters)
    /\ loading' = FALSE
    /\ UNCHANGED store

\* The end of an invocation whose record is c, or nothing while it runs.
Settle(c) ==
    CASE c.pc # "idle"    -> UNCHANGED <<repos, store, loading, error, pagination>>
      [] c.outcome = "ok" -> FetchSucceed(c.allRepos)
      [] OTHER            -> FetchFail(c.msg)

\* The slot a new invocation takes.
FreeSlot ==
    CHOOSE i \in Slots :
        /\ calls[i].pc = "idle"
        /\ \A j \in Slots : calls[j].pc = "idle" => i <= j

\* part_000:461-474, 477-482: fetchRepos up to its first await.
FetchBegin(tok, user) ==
    IF tok # ""
    THEN [IdleCall EXCEPT !.pc = "api", !.path = "api"]
    ELSE [IdleCall EXCEPT !.pc = "rest", !.path = "rest", !.user = user,
                          !.page = 1, !.asked = <<1>>]

FetchClickWhileLoading ==
    /\ (token # "" \/ username # "")
    /\ \E i \in Slots : calls[i].pc = "idle"
    /\ loading' = TRUE
    /\ error' = ""
    /\ calls' = [calls EXCEPT ![FreeSlot] = FetchBegin(token, username)]
    /\ srv' = IF token # ""
              THEN [srv EXCEPT ![FreeSlot] = PostBegin(IdleHandler, token)]
              ELSE srv
    /\ UNCHANGED <<token, username, repos, store, annotVars, pageSizes, tableVars>>

\* part_000:514: the Fetch Repos button, enabled unless loading or no
\* credential.
FetchClick ==
    /\ ~loading /\ (token # "" \/ username # "")
    /\ \E i \in Slots : calls[i].pc = "idle"
    /\ loading' = TRUE
    /\ error' = ""
    /\ calls' = [calls EXCEPT ![FreeSlot] = FetchBegin(token, username)]
    /\ srv' = IF token # ""
              THEN [srv EXCEPT ![FreeSlot] = PostBegin(IdleHandler, token)]
              ELSE srv
    /\ UNCHANGED <<token, username, repos, store, annotVars, pageSizes, tableVars>>

\* part_000:460-464: fetchRepos called while an invocation is in flight.  The
\* function tests the credentials and nothing else; the new invocation takes
\* the next slot that was never used.
FetchInvoke ==
    /\ ~(token = "" /\ username = "")
    /\ \E j \in Slots : calls[j].pc # "idle"
    /\ \E i \in Slots :
         /\ calls[i] = IdleCall
         /\ \A j \in 1..(i - 1) : calls[j] # IdleCall
         /\ calls' = [calls EXCEPT ![i] = FetchBegin(token, username)]
         /\ srv' = IF token # ""
                   THEN [srv EXCEPT ![i] = PostBegin(IdleHandler, token)]
                   ELSE srv
    /\ loading' = TRUE
    /\ error' = ""
    /\ UNCHANGED <<token, username, repos, store, annotVars, pageSizes, tableVars>>

\* part_000:472-474: the endpoint's response body arrives.
ApiOnResponse(c, body) ==
    IF "error" \in DOMAIN body /\ Truthy(body.error)
    THEN [c EXCEPT !.pc = "idle", !.outcome = "fail", !.msg = body.error]
    ELSE [c EXCEPT !.pc = "idle", !.outcome = "ok", !.allRepos = body.repos]

FetchApiReturn(i) ==
    /\ calls[i].pc = "api"
    /\ srv[i].pc = "done"
    /\ LET c == ApiOnResponse(calls[i], srv[i].response.body)
       IN /\ Settle(c)
          /\ calls' = [calls EXCEPT ![i] = c]
    /\ UNCHANGED <<token, username, annotVars, srv, pageSizes, clipboard, sorting,
                   columnFilters>>

\* What the log keeps of an answer: everything but the records themselves,
\* which the page number and the length determine.
Logged(p, res) ==
    IF res.net /\ res.ok
    THEN [page |-> p, net |-> TRUE, ok |-> TRUE, len |-> Len(res.data)]
    ELSE [page |-> p, net |-> res.net, ok |-> FALSE, len |-> 0]

RestStopsOnFullPage(c, res) ==
    LET c1 == [c EXCEPT !.got = Append(@, Logged(c.page, res))]
    IN  IF ~res.net
        THEN [c1 EXCEPT !.pc = "idle", !.outcome = "fail", !.msg = "Failed to fetch"]
        ELSE IF ~res.ok
        THEN [c1 EXCEPT !.pc = "idle", !.outcome = "fail",
                        !.msg = "GitHub API error: " \o ToString(res.status)]
        ELSE IF Len(res.data) <= PerPage
        THEN [c1 EXCEPT !.pc = "idle", !.outcome = "ok",
                        !.allRepos = @ \o res.data]
        ELSE [c1 EXCEPT !.allRepos = @ \o res.data, !.page = @ + 1,
                        !.asked = Append(@, c.page + 1)]

\* part_000:482-488: one answer of the REST remote.
RestOnResponse(c, res) ==
    LET c1 == [c EXCEPT !.got = Append(@, Logged(c.page, res))]
    IN  IF ~res.net
        THEN [c1 EXCEPT !.pc = "idle", !.outcome = "fail", !.msg = "Failed to fetch"]
        ELSE IF ~res.ok
        THEN [c1 EXCEPT !.pc = "idle", !.outcome = "fail",
                        !.msg = "GitHub API error: " \o ToString(res.status)]
        ELSE IF Len(res.data) < PerPage
        THEN [c1 EXCEPT !.pc = "idle", !.outcome = "ok",
                        !.allRepos = @ \o res.data]
        ELSE [c1 EXCEPT !.allRepos = @ \o res.data, !.page = @ + 1,
                        !.asked = Append(@, c.page + 1)]

FetchRestAnswer(i) ==
    /\ calls[i].pc = "rest"
    /\ \E res \in RestResponses(calls[i].page, calls[i].user) :
         LET c == RestOnResponse(calls[i], res)
         IN /\ Settle(c)
            /\ calls' = [calls EXCEPT ![i] = c]
    /\ UNCHANGED <<token, username, annotVars, srv, pageSizes, clipboard, sorting,
                   columnFilters>>

\* part_000:507, 511: blur of the token or the username field.
Blur ==
    /\ store' = SaveFetched(repos)
    /\ UNCHANGED <<token, username, repos, loading, error, annotVars, calls, srv,
                   pageSizes, tableVars>>

(***************************************************************************)
(* onMount  (part_000:338-354): the state after construction is the load   *)
(* of what localStorage holds.                                             *)
(***************************************************************************)
\* localStorage.getItem(k) ?? ''
ItemOr(text, dflt) == IF text = NoItem THEN dflt ELSE text.raw

\* data.<field> ?? dflt
FieldOr(obj, f, dflt) == IF f \in DOMAIN obj THEN obj[f] ELSE dflt

Mounted(st) ==
    LET custom == IF st.repomgr_custom = NoItem THEN EmptyObj
                  ELSE Parse(st.repomgr_custom)
    IN  /\ token = ItemOr(st.repomgr_token, "")
        /\ username = ItemOr(st.repomgr_username, "")
        /\ repos = IF st.repomgr_github = NoItem THEN <<>> ELSE Parse(st.repomgr_github)
        /\ tofuUrls = IF st.repomgr_tofu_urls = NoItem THEN EmptyObj
                      ELSE Parse(st.repomgr_tofu_urls)
        /\ classes = FieldOr(custom, "classes", <<>>)
        /\ repoClasses = FieldOr(custom, "repoClasses", EmptyObj)
        /\ customUrls = FieldOr(custom, "customUrls", EmptyObj)
        /\ repoEnabled = FieldOr(custom, "repoEnabled", EmptyObj)
        /\ repoDescriptions = FieldOr(custom, "repoDescriptions", EmptyObj)
        /\ loading = FALSE
        /\ error = ""
        /\ store = st

(***************************************************************************)
(* What localStorage may hold when the page is opened: texts the page      *)
(* itself wrote in an earlier session.                                     *)
(***************************************************************************)
Arr(a) == [kind |-> "array", a |-> a]
Str(t) == [kind |-> "string", s |-> t]

\* A custom bundle with entries for a fetched repository (alice/r1) and for
\* one that no fetch returns (ghost/old).
SampleCustom ==
    CustomBundle(<<"web">>,
                 [k \in {"alice/r1", "ghost/old"} |-> "web"],
                 [k \in {"r1", "old"} |-> Arr(<<"https://" \o k \o ".example">>)],
                 [k \in {"alice/r1", "ghost/old"} |-> TRUE],
                 [k \in {"ghost/old"} |-> "gone"])

SampleTofu == [k \in {"r1", "old"} |-> k \o ".pages.dev"]

SampleRepos == [k \in 1..2 |-> RepoOfNode(GqlNode(k))]

Credentials == { <<"ghp_x", "">>, <<"", "octocat">>, <<"ghp_x", "octocat">> }

FetchStores ==
    { [EmptyStore EXCEPT !.repomgr_token = [raw |-> cr[1]],
                         !.repomgr_username = [raw |-> cr[2]],
                         !.repomgr_github = gh,
                         !.repomgr_custom = cu,
                         !.repomgr_tofu_urls = tf]
      : cr \in Credentials,
        gh \in {NoItem, Stringify(SampleRepos, 0)},
        cu \in {NoItem, Stringify(SampleCustom, 0)},
        tf \in {NoItem, Stringify(SampleTofu, 0)} }

(***************************************************************************)
(* The table state of a freshly created component (part_000:102-104) and   *)
(* an untouched clipboard.                                                 *)
(***************************************************************************)
TableInit ==
    /\ clipboard = NoItem
    /\ pagination = [pageIndex |-> 0, pageSize |-> PageSize]
    /\ sorting = [id |-> "name", desc |-> FALSE]
    /\ columnFilters = [NoFilters EXCEPT !.type = "Sources"]

(***************************************************************************)
(* Specifications.                                                         *)
(***************************************************************************)
\* The endpoint alone, asked by any HTTP client.
InitPost ==
    /\ revision = "current"
    /\ imported = NoImport
    /\ Mounted(EmptyStore)
    /\ repoUrls = EmptyObj
    /\ calls = [i \in Slots |-> IdleCall]
    /\ srv = [i \in Slots |-> IdleHandler]
    /\ pageSizes = 0..MaxNodes
    /\ TableInit

NextPost ==
    \/ PostStart
    \/ PostStep(1)
    \/ PostAnswer(1)

SpecPost == InitPost /\ [][NextPost]_vars

\* The page fetching: the button, the endpoint, the REST remote, blur.
InitFetch ==
    /\ revision = "current"
    /\ imported = NoImport
    /\ \E st \in FetchStores : Mounted(st)
    /\ repoUrls = EmptyObj
    /\ calls = [i \in Slots |-> IdleCall]
    /\ srv = [i \in Slots |-> IdleHandler]
    /\ pageSizes = {MaxNodes}
    /\ TableInit

NextFetch ==
    \/ FetchClick
    \/ \E i \in Slots : PostStep(i)
    \/ \E i \in Slots : PostAnswer(i)
    \/ \E i \in Slots : FetchApiReturn(i)
    \/ \E i \in Slots : FetchRestAnswer(i)
    \/ Blur

SpecFetch == InitFetch /\ [][NextFetch]_vars

(***************************************************************************)
(* Properties of the endpoint (SpecPost).                                  *)
(***************************************************************************)
\* An answer that is a successful page: HTTP success, no errors, data.
IsPage(res) ==
    /\ res.ok
    /\ ~("errors" \in DOMAIN res.result /\ Len(res.result.errors) > 0)
    /\ "data" \in DOMAIN res.result

PageInfoOf(res) == res.result.data.viewer.repositories.pageInfo
NodesOf(res) == res.result.data.viewer.repositories.nodes

\* The remote answered k >= 1 successful pages, all but the last with
\* hasNextPage = true, the last with hasNextPage = false.
Exhausted(served) ==
    /\ Len(served) >= 1
    /\ \A j \in 1..Len(served) :
          /\ IsPage(served[j])
          /\ PageInfoOf(served[j]).hasNextPage = (j < Len(served))

\* The owner-qualified identity of a record, as a pair.
Ident(owner, name) == <<owner.login, name>>

AllNodes(served) == Flatten([j \in 1..Len(served) |-> NodesOf(served[j])])

\* C1: when the remote answers k successful pages of which only the last
\* reports hasNextPage = false, the handler has sent exactly k requests and
\* responds with the k node lists concatenated in page order, every node
\* once.
C1_Pagination ==
    LET h == srv[1]
        nodes == AllNodes(h.served)
        out == h.response.body.repos
    IN  (h.pc = "done" /\ Exhausted(h.served)) =>
          /\ Len(h.sent) = Len(h.served)
          /\ h.response.status = 200
          /\ "error" \notin DOMAIN h.response.body
          /\ Len(out) = Len(nodes)
          /\ \A k \in 1..Len(out) :
                Ident(out[k].owner, out[k].name) = Ident(nodes[k].owner, nodes[k].name)
          /\ \A k, l \in 1..Len(out) :
                k # l => Ident(out[k].owner, out[k].name) # Ident(out[l].owner, out[l].name)
          /\ \A j \in 1..Len(h.served) : PageInfoOf(h.served[j]).endCursor = Cursor(j)

C1_Witness ==
    /\ srv[1].pc = "done"
    /\ Exhausted(srv[1].served)
    /\ Len(srv[1].served) = MaxPages
    /\ Len(srv[1].response.body.repos) >= MaxPages + 1

\* C2: a page request answered with a non-success HTTP status is the last
\* request of the run, and the response is an error with an empty repos
\* list whatever was accumulated before.
C2_HttpErrorAborts ==
    LET h == srv[1]
    IN  \A j \in 1..Len(h.served) :
          ~h.served[j].ok =>
             /\ j = Len(h.served)
             /\ Len(h.sent) = j
             /\ h.pc = "done"
             /\ h.response.status = h.served[j].status
             /\ h.response.body.repos = <<>>
             /\ "error" \in DOMAIN h.response.body
             /\ Truthy(h.response.body.error)

C2_Witness ==
    /\ srv[1].pc = "done"
    /\ Len(srv[1].served) >= 2
    /\ ~srv[1].served[Len(srv[1].served)].ok
    /\ Len(srv[1].allRepos) >= 2

(***************************************************************************)
(* Properties of fetchRepos (SpecFetch).                                   *)
(***************************************************************************)
Snapshot(st) == st.repomgr_github

\* C3: a step that ends with a failed fetch on display (error is set: the
\* last invocation failed and none was started since) leaves the persisted
\* record list as it was: the failing step itself and every later step,
\* blur included.
C3_SnapshotSurvivesFailure ==
    [][ error' # "" => Snapshot(store') = Snapshot(store) ]_vars

\* C4: a page answered with HTTP success and a non-empty errors array ends
\* the run (no further request) with the first error's message and an empty
\* repos list, and fetchRepos, once it has returned on that response, shows
\* exactly that message.
C4_FirstApiError ==
    \A i \in Slots :
      LET h == srv[i]
          last == h.served[Len(h.served)]
      IN  (Len(h.served) >= 1 /\ last.ok /\ "errors" \in DOMAIN last.result
             /\ Len(last.result.errors) > 0) =>
            /\ h.pc = "done"
            /\ Len(h.sent) = Len(h.served)
            /\ h.response.body = [repos |-> <<>>, error |-> last.result.errors[1].message]
            /\ (calls[i].path = "api" /\ calls[i].pc = "idle") =>
                  /\ calls[i].outcome = "fail"
                  /\ error = last.result.errors[1].message
                  /\ repos = <<>>

C4_Witness ==
    /\ calls[1].path = "api" /\ calls[1].pc = "idle"
    /\ Len(srv[1].served) >= 2
    /\ srv[1].served[Len(srv[1].served)].ok
    /\ "errors" \in DOMAIN srv[1].served[Len(srv[1].served)].result
    /\ "data" \in DOMAIN srv[1].served[Len(srv[1].served)].result
    /\ error = ApiErrors[1].message

\* C5: on the no-token path the pages asked are 1, 2, 3, ... in this order,
\* each once; a page is asked only after a full page; the invocation that
\* succeeds stops at the first page shorter than 100 and the record list is
\* all its pages concatenated.
C5_RestPagination ==
    \A i \in Slots :
      LET c == calls[i]
          k == Len(c.got)
      IN  c.path = "rest" =>
            /\ c.asked = [j \in 1..Len(c.asked) |-> j]
            /\ Len(c.asked) = k + (IF c.pc = "rest" THEN 1 ELSE 0)
            /\ \A j \in 1..k : c.got[j].page = j
            /\ \A j \in 1..(Len(c.asked) - 1) : c.got[j].ok /\ c.got[j].len = PerPage
            /\ (c.pc = "idle" /\ c.outcome = "ok") =>
                  /\ c.got[k].ok /\ c.got[k].len < PerPage
                  /\ repos = Flatten([j \in 1..k |-> RestPage(j, c.got[j].len, c.user)])
                  /\ Len(repos) = (k - 1) * PerPage + c.got[k].len

\* A last page of exactly 100 records, then one more request that got none.
C5_Witness ==
    /\ calls[1].path = "rest" /\ calls[1].pc = "idle" /\ calls[1].outcome = "ok"
    /\ calls[1].asked = <<1, 2>>
    /\ calls[1].got[1].len = PerPage /\ calls[1].got[2].len = 0
    /\ Len(repos) = PerPage

\* The keys of the annotation layers that match no record of the list.
Orphans == (DOMAIN repoClasses \cup DOMAIN repoEnabled \cup DOMAIN repoDescriptions)
             \ { repos[k].owner.login \o "/" \o repos[k].name : k \in 1..Len(repos) }

\* C8: no step of fetchRepos or of the endpoint, on success or on failure,
\* changes an annotation layer, in memory or in the store.
C8_FetchKeepsAnnotations ==
    [][ (calls' # calls \/ srv' # srv) =>
          /\ UNCHANGED <<tofuUrls, classes, repoClasses, customUrls, repoEnabled,
                         repoDescriptions>>
          /\ store'.repomgr_custom = store.repomgr_custom
          /\ store'.repomgr_tofu_urls = store.repomgr_tofu_urls ]_vars

\* A fetch has succeeded and annotations of a repository it did not return
\* are still there, in memory and in the store.
C8_Witness ==
    /\ calls[1].pc = "idle" /\ calls[1].outcome = "ok" /\ repos # <<>>
    /\ "ghost/old" \in Orphans
    /\ "old" \in DOMAIN customUrls /\ "old" \in DOMAIN tofuUrls
    /\ store.repomgr_custom = Stringify(SampleCustom, 0)
    /\ store.repomgr_tofu_urls = Stringify(SampleTofu, 0)

(***************************************************************************)
(* The reconciled view: URLs and descriptions (part_000:87-100, 277-284).  *)
(***************************************************************************)
MaxUrls == 2

\* The characters of the strings the model stores as a bare-string entry.
Chars(t) ==
    CASE t = "r.io" -> <<"r", ".", "i", "o">>
      [] t = ""     -> <<>>
      [] OTHER      -> <<t>>

\* [...urls] of a customUrls entry: an array's elements, a string's
\* characters.
Spread(entry) == IF entry.kind = "array" THEN entry.a ELSE Chars(entry.s)

\* part_000:87-96
combinedUrls(tofu, custom) ==
    LET first == [k \in {x \in DOMAIN tofu : Truthy(tofu[x])} |-> <<tofu[k]>>]
    IN  [k \in DOMAIN first \cup DOMAIN custom |->
            IF k \in DOMAIN custom
            THEN (IF k \in DOMAIN first THEN first[k] ELSE <<>>) \o Spread(custom[k])
            ELSE first[k]]

\* part_000:201, 203, 425, 747: combinedUrls[row.name] ?? []
ResolvedUrls(row) ==
    LET all == combinedUrls(tofuUrls, customUrls)
    IN  IF row.name \in DOMAIN all THEN all[row.name] ELSE <<>>

\* obj[k], undefined when the key is missing.
Lookup(obj, k) == IF k \in DOMAIN obj THEN obj[k] ELSE Undefined

DescriptionNullish(row, overrides) ==
    LET custom == Lookup(overrides, repoKey(row))
    IN  IF custom # Undefined THEN custom
        ELSE IF row.description \notin {Null, Undefined} THEN row.description
        ELSE ""

\* part_000:280, 284, 433: repoDescriptions[key] || row.description || ''
Description(row, overrides) ==
    LET custom == Lookup(overrides, repoKey(row))
    IN  IF Truthy(custom) THEN custom
        ELSE IF Truthy(row.description) THEN row.description
        ELSE ""

Rows == {repos[k] : k \in 1..Len(repos)}

\* Every edit of the custom layers ends with persistCustom().
SaveCustom ==
    store' = persistCustom(store, classes', repoClasses', customUrls',
                           repoEnabled', repoDescriptions')

\* part_000:745: customUrls[repoName] ?? [], as the cell iterates it.
repoCustomUrls(name) ==
    IF name \in DOMAIN customUrls THEN Spread(customUrls[name]) ELSE <<>>

UrlInputs == {"", "https://a.example"}

\* part_000:814-825: Enter in the "Add custom URL" field of a row.
AddCustomUrl(row) ==
    /\ Len(repoCustomUrls(row.name)) < MaxUrls
    /\ \E v \in UrlInputs :
         /\ v # ""
         /\ customUrls' = Put(customUrls, row.name,
                              Arr(Append(repoCustomUrls(row.name), v)))
    /\ UNCHANGED <<token, username, repos, loading, error, tofuUrls, classes,
                   repoClasses, repoEnabled, repoDescriptions, repoUrls, imported,
                   revision, calls, srv, pageSizes, tableVars>>
    /\ SaveCustom

\* part_000:788-798: typing in the field of the i-th custom URL of a row.
EditCustomUrl(row) ==
    /\ \E i \in 1..Len(repoCustomUrls(row.name)), v \in UrlInputs :
         customUrls' = Put(customUrls, row.name,
                           Arr([repoCustomUrls(row.name) EXCEPT ![i] = v]))
    /\ UNCHANGED <<token, username, repos, loading, error, tofuUrls, classes,
                   repoClasses, repoEnabled, repoDescriptions, repoUrls, imported,
                   revision, calls, srv, pageSizes, tableVars>>
    /\ SaveCustom

\* part_000:799-811: the remove button of the i-th custom URL of a row
\* (Array.prototype.filter: a bare string has none, and the handler throws).
RemoveCustomUrl(row) ==
    /\ row.name \in DOMAIN customUrls => customUrls[row.name].kind = "array"
    /\ \E i \in 1..Len(repoCustomUrls(row.name)) :
         customUrls' = Put(customUrls, row.name,
                           Arr([j \in 1..(Len(repoCustomUrls(row.name)) - 1) |->
                                  IF j < i THEN repoCustomUrls(row.name)[j]
                                  ELSE repoCustomUrls(row.name)[j + 1]]))
    /\ UNCHANGED <<token, username, repos, loading, error, tofuUrls, classes,
                   repoClasses, repoEnabled, repoDescriptions, repoUrls, imported,
                   revision, calls, srv, pageSizes, tableVars>>
    /\ SaveCustom

DescriptionInputs == {"", "mine"}

\* part_000:856-866: typing in the description textarea of a row.
EditDescription(row) ==
    /\ \E v \in DescriptionInputs :
         repoDescriptions' = Put(repoDescriptions, repoKey(row), v)
    /\ UNCHANGED <<token, username, repos, loading, error, tofuUrls, classes,
                   repoClasses, customUrls, repoEnabled, repoUrls, imported,
                   revision, calls, srv, pageSizes, tableVars>>
    /\ SaveCustom

\* part_000:867-880: the Clear Override button, shown while the row has a
\* non-empty override.
ClearOverride(row) ==
    /\ Truthy(Lookup(repoDescriptions, repoKey(row)))
    /\ repoDescriptions' = Del(repoDescriptions, repoKey(row))
    /\ UNCHANGED <<token, username, repos, loading, error, tofuUrls, classes,
                   repoClasses, customUrls, repoEnabled, repoUrls, imported,
                   revision, calls, srv, pageSizes, tableVars>>
    /\ SaveCustom

(***************************************************************************)
(* Import  (part_000:381-415, 449-458; +page.svelte:348-375).              *)
(*                                                                         *)
(* A text handed to an import function is one of                           *)
(*   [garbage |-> s]          JSON.parse throws on it,                     *)
(*   [scalar |-> "null"]      the JSON text null,                          *)
(*   [scalar |-> "5"]         a JSON number,                               *)
(*   [json |-> o, indent |-> n]   a JSON object o; with nulls |-> S the    *)
(*                            keys of S are present too with the value     *)
(*                            null, with strings |-> S with a non-empty    *)
(*                            string as value.                             *)
(***************************************************************************)
ParseThrows(text) == "garbage" \in DOMAIN text

IsNullJson(text) == "scalar" \in DOMAIN text /\ text.scalar = "null"

\* The keys the parsed value has with a value that is an object or an array
\* (a property read of a number yields undefined).
ObjectOf(text) == IF IsJson(text) THEN Parse(text) ELSE EmptyObj

Nulls(text) == IF "nulls" \in DOMAIN text THEN text.nulls ELSE {}

Strings(text) == IF "strings" \in DOMAIN text THEN text.strings ELSE {}

\* The top-level keys present in the parsed value, whatever their value.
Present(text) == DOMAIN ObjectOf(text) \cup Nulls(text) \cup Strings(text)

CustomKeys == {"classes", "repoClasses", "customUrls", "repoEnabled", "repoDescriptions"}

\* The custom layers in memory, as importCustomData and persistCustom see
\* them.
Custom == CustomBundle(classes, repoClasses, customUrls, repoEnabled, repoDescriptions)

\* Per-entry merge of two mappings ({...a, ...b}).
Merged(a, b) == [k \in DOMAIN a \cup DOMAIN b |-> IF k \in DOMAIN b THEN b[k] ELSE a[k]]

importCustomDataMerging(a, text) ==
    IF ParseThrows(text) \/ IsNullJson(text) THEN [a |-> a, saved |-> FALSE]
    ELSE LET o == ObjectOf(text)
         IN  [ a |-> [f \in DOMAIN a |->
                        IF f \notin DOMAIN o THEN a[f]
                        ELSE IF f = "classes" THEN o[f]
                        ELSE Merged(a[f], o[f])],
               saved |-> TRUE ]

\* part_000:381-391: the custom layers after the import of text, and
\* whether persistCustom() was reached.  JSON.parse throws on a malformed
\* text and `parsed.classes` throws on null; the catch swallows both.
importCustomData(a, text) ==
    IF ParseThrows(text) \/ IsNullJson(text) THEN [a |-> a, saved |-> FALSE]
    ELSE LET o == ObjectOf(text)
         IN  [ a |-> [f \in DOMAIN a |-> IF f \in DOMAIN o THEN o[f] ELSE a[f]],
               saved |-> TRUE ]

\* part_000:393-401
importTofuOutput(tofu, text) ==
    IF ParseThrows(text) \/ IsNullJson(text) THEN [tofu |-> tofu, saved |-> FALSE]
    ELSE LET o == ObjectOf(text)
         IN  IF "pages_urls" \in DOMAIN o /\ "value" \in DOMAIN o.pages_urls
             THEN [tofu |-> o.pages_urls.value, saved |-> TRUE]
             ELSE [tofu |-> tofu, saved |-> FALSE]

\* part_000:407-410, 449-458: Paste or Upload of the custom data.
ImportCustomData(text) ==
    /\ revision = "current"
    /\ LET r == importCustomData(Custom, text)
       IN  /\ classes' = r.a.classes
           /\ repoClasses' = r.a.repoClasses
           /\ customUrls' = r.a.customUrls
           /\ repoEnabled' = r.a.repoEnabled
           /\ repoDescriptions' = r.a.repoDescriptions
           /\ store' = IF r.saved
                       THEN persistCustom(store, r.a.classes, r.a.repoClasses,
                                          r.a.customUrls, r.a.repoEnabled,
                                          r.a.repoDescriptions)
                       ELSE store
    /\ imported' = [fn |-> "importCustomData", text |-> text]
    /\ UNCHANGED <<token, username, repos, loading, error, tofuUrls, repoUrls,
                   revision, calls, srv, pageSizes, tableVars>>

\* part_000:412-415: Paste Tofu Output.
ImportTofuOutput(text) ==
    /\ revision = "current"
    /\ LET r == importTofuOutput(tofuUrls, text)
       IN  /\ tofuUrls' = r.tofu
           /\ store' = IF r.saved THEN persistTofuUrls(store, r.tofu) ELSE store
    /\ imported' = [fn |-> "importTofuOutput", text |-> text]
    /\ UNCHANGED <<token, username, repos, loading, error, classes, repoClasses,
                   customUrls, repoEnabled, repoDescriptions, repoUrls, revision,
                   calls, srv, pageSizes, tableVars>>

(***************************************************************************)
(* The legacy page's import (+page.svelte:332-375).                        *)
(***************************************************************************)
LegacyBundle(cl, rc, ru, re, rd) ==
    [classes |-> cl, repoClasses |-> rc, repoUrls |-> ru, repoEnabled |-> re,
     repoDescriptions |-> rd]

Legacy == LegacyBundle(classes, repoClasses, repoUrls, repoEnabled, repoDescriptions)

\* +page.svelte:332-338
persistClasses(st, a) ==
    [st EXCEPT !.repomgr_classes = Stringify(a.classes, 0),
               !.repomgr_repo_classes = Stringify(a.repoClasses, 0),
               !.repomgr_repo_urls = Stringify(a.repoUrls, 0),
               !.repomgr_repo_enabled = Stringify(a.repoEnabled, 0),
               !.repomgr_repo_descriptions = Stringify(a.repoDescriptions, 0)]

\* +page.svelte:355-360: the old single-string format becomes an array.
Migrate(urls) ==
    [k \in DOMAIN urls |->
        IF urls[k].kind = "string"
        THEN (IF urls[k].s # "" THEN Arr(<<urls[k].s>>) ELSE Arr(<<>>))
        ELSE urls[k]]

AppendPagesReplacing(urls, value) ==
    [k \in DOMAIN urls \cup {x \in DOMAIN value : Truthy(value[x])} |->
        IF k \in DOMAIN value /\ Truthy(value[k]) THEN Arr(<<value[k]>>) ELSE urls[k]]

\* +page.svelte:366-372: pages_urls.value is appended entry by entry.
AppendPages(urls, value) ==
    [k \in DOMAIN urls \cup {x \in DOMAIN value : Truthy(value[x])} |->
        IF k \in DOMAIN value /\ Truthy(value[k])
        THEN Arr((IF k \in DOMAIN urls THEN Spread(urls[k]) ELSE <<>>) \o <<value[k]>>)
        ELSE urls[k]]

\* +page.svelte:348-375.  A repoUrls that is a non-empty string makes the
\* migration loop throw (a string's characters cannot be assigned to) after
\* classes and repoClasses were assigned; the catch swallows it.
importClassData(a, text) ==
    IF ParseThrows(text) \/ IsNullJson(text) THEN [a |-> a, saved |-> FALSE]
    ELSE LET o == ObjectOf(text)
             a1 == [a EXCEPT !.classes = IF "classes" \in DOMAIN o THEN o.classes ELSE @,
                             !.repoClasses = IF "repoClasses" \in DOMAIN o
                                             THEN o.repoClasses ELSE @]
             a2 == [a1 EXCEPT !.repoUrls = IF "repoUrls" \in DOMAIN o
                                           THEN Migrate(o.repoUrls) ELSE @,
                              !.repoEnabled = IF "repoEnabled" \in DOMAIN o
                                              THEN o.repoEnabled ELSE @,
                              !.repoDescriptions = IF "repoDescriptions" \in DOMAIN o
                                                   THEN o.repoDescriptions ELSE @]
             a3 == IF "pages_urls" \in DOMAIN o /\ "value" \in DOMAIN o.pages_urls
                   THEN [a2 EXCEPT !.repoUrls = AppendPages(@, o.pages_urls.value)]
                   ELSE a2
         IN  IF "repoUrls" \in Strings(text) THEN [a |-> a1, saved |-> FALSE]
             ELSE [a |-> a3, saved |-> TRUE]

\* +page.svelte:381-384, 418-427: Paste or Upload on the legacy page.
ImportClassData(text) ==
    /\ revision = "legacy"
    /\ LET r == importClassData(Legacy, text)
       IN  /\ \A k \in DOMAIN r.a.repoUrls : Len(Spread(r.a.repoUrls[k])) <= MaxUrls
           /\ classes' = r.a.classes
           /\ repoClasses' = r.a.repoClasses
           /\ repoUrls' = r.a.repoUrls
           /\ repoEnabled' = r.a.repoEnabled
           /\ repoDescriptions' = r.a.repoDescriptions
           /\ store' = IF r.saved THEN persistClasses(store, r.a) ELSE store
    /\ imported' = [fn |-> "importClassData", text |-> text]
    /\ UNCHANGED <<token, username, repos, loading, error, tofuUrls, customUrls,
                   revision, calls, srv, pageSizes, tableVars>>

(***************************************************************************)
(* The legacy page's startup load (+page.svelte:300-324).                  *)
(***************************************************************************)
ParsedOr(text, dflt) == IF text = NoItem THEN dflt ELSE Parse(text)

MountedLegacy(st) ==
    /\ token = ItemOr(st.repomgr_token, "")
    /\ username = ItemOr(st.repomgr_username, "")
    /\ repos = ParsedOr(st.repomgr_repos, <<>>)
    /\ classes = ParsedOr(st.repomgr_classes, <<>>)
    /\ repoClasses = ParsedOr(st.repomgr_repo_classes, EmptyObj)
    /\ repoUrls = Migrate(ParsedOr(st.repomgr_repo_urls, EmptyObj))
    /\ repoEnabled = ParsedOr(st.repomgr_repo_enabled, EmptyObj)
    /\ repoDescriptions = ParsedOr(st.repomgr_repo_descriptions, EmptyObj)
    /\ tofuUrls = EmptyObj
    /\ customUrls = EmptyObj
    /\ loading = FALSE
    /\ error = ""
    /\ store = st

(***************************************************************************)
(* Texts a user may paste or upload.                                       *)
(***************************************************************************)
GarbageTexts == { [garbage |-> ""], [garbage |-> "{classes:"] }

ScalarTexts == { [scalar |-> "null"], [scalar |-> "5"] }

\* The values an imported bundle carries: an empty taxonomy and an empty
\* enabled map (both truthy), and mappings for other keys than the stored
\* ones.
ImportedCustom ==
    CustomBundle(<<>>,
                 [k \in {"bob/r1"} |-> "lib"],
                 [k \in {"r1"} |-> Arr(<<"https://b.example">>)],
                 EmptyObj,
                 [k \in {"alice/r1"} |-> "imported"])

\* The sets of keys the imported bundles have: none, one, all but one, all.
KeySets ==
    {{}, CustomKeys} \cup {{f} : f \in CustomKeys} \cup {CustomKeys \ {f} : f \in CustomKeys}

\* A JSON object with the keys of P (values of ImportedCustom) and the keys
\* of N with the value null.
CustomDoc(P, N) == [json |-> [f \in P |-> ImportedCustom[f]], indent |-> 2, nulls |-> N]

TofuDocs ==
    { [json |-> [pages_urls |-> [value |-> [k \in {"r1", "r2"} |->
                                   IF k = "r1" THEN "r1.tofu.dev" ELSE ""]]],
       indent |-> 2],
      [json |-> [pages_urls |-> [value |-> EmptyObj]], indent |-> 2],
      [json |-> [pages_urls |-> [sensitive |-> FALSE]], indent |-> 2] }

\* repoUrls in the old single-string format.
OldUrls ==
    [k \in {"r1", "r2", "r3"} |->
        CASE k = "r1" -> Str("r.io")
          [] k = "r2" -> Str("")
          [] OTHER    -> Arr(<<"https://r3.example">>)]

\* A bundle written by the older page: custom URLs in the single-string
\* format.
OldFormatDoc == [json |-> [f \in {"customUrls"} |-> OldUrls], indent |-> 2]

CustomTexts ==
    GarbageTexts \cup ScalarTexts \cup TofuDocs
      \cup {Stringify(SampleCustom, 2), OldFormatDoc}
      \cup {CustomDoc(P, {}) : P \in KeySets}
      \cup {CustomDoc(P, CustomKeys \ P) : P \in KeySets}

TofuTexts ==
    GarbageTexts \cup ScalarTexts \cup TofuDocs
      \cup {Stringify(SampleCustom, 2), CustomDoc({}, {})}

LegacyKeys == {"classes", "repoClasses", "repoEnabled", "repoDescriptions"}

SampleLegacy ==
    LegacyBundle(<<"web">>,
                 [k \in {"alice/r1"} |-> "web"],
                 [k \in {"r1"} |-> Arr(<<"https://r1.example">>)],
                 [k \in {"alice/r1"} |-> TRUE],
                 [k \in {"alice/r1"} |-> "mine"])

\* A legacy bundle with the keys of P; u tells what it holds under repoUrls:
\* nothing, a mapping in the old format, or a bare string.
LegacyDoc(P, u) ==
    LET base == [f \in P |-> ImportedCustom[f]]
    IN  CASE u = "mapping" -> [json |-> [f \in P \cup {"repoUrls"} |->
                                            IF f = "repoUrls" THEN OldUrls ELSE base[f]],
                                indent |-> 2]
          [] u = "string"  -> [json |-> base, indent |-> 2, strings |-> {"repoUrls"}]
          [] OTHER         -> [json |-> base, indent |-> 2]

LegacyTexts ==
    GarbageTexts \cup ScalarTexts \cup TofuDocs
      \cup {[json |-> [f \in {"repoClasses"} |-> ImportedCustom[f]], indent |-> 2,
             nulls |-> {"classes", "repoEnabled"}]}
      \cup {LegacyDoc(P, u) : P \in {{}, {"classes"}, {"repoEnabled", "repoDescriptions"},
                                     LegacyKeys},
                              u \in {"none", "mapping", "string"}}

ImportTexts == CustomTexts \cup TofuTexts \cup LegacyTexts

(***************************************************************************)
(* The table of a loaded snapshot, edited row by row.                      *)
(***************************************************************************)
ViewStores ==
    { [EmptyStore EXCEPT !.repomgr_token = [raw |-> "ghp_x"],
                         !.repomgr_username = [raw |-> ""],
                         !.repomgr_github = Stringify(gh, 0),
                         !.repomgr_custom = cu,
                         !.repomgr_tofu_urls = tf]
      : gh \in {SampleRepos, <<RepoOfNode(GqlNode(3))>>},
        cu \in {NoItem, Stringify(SampleCustom, 0)},
        tf \in {NoItem, Stringify(SampleTofu, 0)} }

InitView ==
    /\ revision = "current"
    /\ imported = NoImport
    /\ \E st \in ViewStores : Mounted(st)
    /\ repoUrls = EmptyObj
    /\ calls = [i \in Slots |-> IdleCall]
    /\ srv = [i \in Slots |-> IdleHandler]
    /\ pageSizes = {MaxNodes}
    /\ TableInit

NextView ==
    \/ \E row \in Rows : AddCustomUrl(row)
    \/ \E row \in Rows : EditCustomUrl(row)
    \/ \E row \in Rows : RemoveCustomUrl(row)
    \/ \E row \in Rows : EditDescription(row)
    \/ \E row \in Rows : ClearOverride(row)
    \/ \E text \in TofuTexts : ImportTofuOutput(text)

SpecView == InitView /\ [][NextView]_vars

(***************************************************************************)
(* Imports into a loaded page, of either revision.                         *)
(***************************************************************************)
ImportStores ==
    { [EmptyStore EXCEPT !.repomgr_custom = cu, !.repomgr_tofu_urls = tf]
      : cu \in {NoItem, Stringify(SampleCustom, 0)},
        tf \in {NoItem, Stringify(SampleTofu, 0)} }

LegacyStores ==
    { EmptyStore, persistClasses(EmptyStore, SampleLegacy) }

InitImport ==
    /\ imported = NoImport
    /\ \/ /\ revision = "current"
          /\ \E st \in ImportStores : Mounted(st)
          /\ repoUrls = EmptyObj
       \/ /\ revision = "legacy"
          /\ \E st \in LegacyStores : MountedLegacy(st)
    /\ calls = [i \in Slots |-> IdleCall]
    /\ srv = [i \in Slots |-> IdleHandler]
    /\ pageSizes = {MaxNodes}
    /\ TableInit

NextImport ==
    \/ \E text \in CustomTexts : ImportCustomData(text)
    \/ \E text \in TofuTexts : ImportTofuOutput(text)
    \/ \E text \in LegacyTexts : ImportClassData(text)

SpecImport == InitImport /\ [][NextImport]_vars

(***************************************************************************)
(* Properties of the reconciled view.                                      *)
(***************************************************************************)
\* The infra URL stored under a bare name, as a prefix of at most one URL.
InfraPrefix(name) ==
    IF name \in DOMAIN tofuUrls /\ tofuUrls[name] # "" THEN <<tofuUrls[name]>> ELSE <<>>

\* The custom URLs stored under a key, in their stored order.
CustomUrlsUnder(key) ==
    IF key \in DOMAIN customUrls THEN Spread(customUrls[key]) ELSE <<>>

\* C6: the resolved URL list of every fetched repository o/n is the
\* non-empty infra URL stored under n followed by the custom URLs stored
\* under the owner-qualified key "o/n", in stored order, nothing dropped.
C6_ResolvedUrls ==
    \A row \in Rows :
        ResolvedUrls(row) = InfraPrefix(row.name) \o CustomUrlsUnder(repoKey(row))

\* C7: the resolved description is the override under the repo key when it
\* is a non-empty string, else the remote description when it is neither
\* null nor empty, else the empty string; and an override "" resolves as no
\* override does.
C7_DescriptionRule ==
    \A row \in Rows :
        LET key == repoKey(row)
            has == key \in DOMAIN repoDescriptions /\ repoDescriptions[key] # ""
        IN  /\ Description(row, repoDescriptions) =
                 IF has THEN repoDescriptions[key]
                 ELSE IF row.description # Null /\ row.description # ""
                      THEN row.description
                      ELSE ""
            /\ Description(row, Put(repoDescriptions, key, "")) =
                 Description(row, Del(repoDescriptions, key))

\* A row whose override was edited to the empty string while the remote has
\* a description.
C7_Witness ==
    \E row \in Rows :
        /\ repoKey(row) \in DOMAIN repoDescriptions
        /\ repoDescriptions[repoKey(row)] = ""
        /\ Truthy(row.description)
        /\ Description(row, repoDescriptions) = row.description

(***************************************************************************)
(* Properties of the imports.                                              *)
(***************************************************************************)
\* The custom layers after the step.  (An import step records its text in
\* imported, so the text of a step is imported'.text.)
CustomAfter == CustomBundle(classes', repoClasses', customUrls', repoEnabled',
                            repoDescriptions')

LegacyAfter == LegacyBundle(classes', repoClasses', repoUrls', repoEnabled',
                            repoDescriptions')

\* The value the text has under a top-level key, and the value of a field,
\* made comparable: null is a value of its own.
ValueIn(text, f) ==
    IF f \in Nulls(text) THEN NullObj ELSE [value |-> ObjectOf(text)[f]]

AsValue(v) == [value |-> v]

NothingChanged ==
    UNCHANGED <<classes, repoClasses, customUrls, repoEnabled, repoDescriptions,
                repoUrls, tofuUrls, store>>

\* The import of text ran to its end: every annotation key the text carries
\* is in memory and the store holds what memory holds.
CustomApplied(text) ==
    /\ \A f \in CustomKeys \cap DOMAIN ObjectOf(text) : CustomAfter[f] = ObjectOf(text)[f]
    /\ store'.repomgr_custom = Stringify(CustomAfter, 0)

TofuApplied(text) ==
    /\ tofuUrls' = ObjectOf(text).pages_urls.value
    /\ store'.repomgr_tofu_urls = Stringify(tofuUrls', 0)

LegacyApplied(text) ==
    /\ \A f \in LegacyKeys \cap DOMAIN ObjectOf(text) : LegacyAfter[f] = ObjectOf(text)[f]
    /\ store' = persistClasses(store, LegacyAfter)

\* C10: an import of a text that is not valid JSON changes no annotation
\* field, not the infra URL map and no store value; and an import of any
\* text either changes nothing or is applied and persisted as a whole.
C10_ImportAllOrNothing ==
    [][ LET text == imported'.text
        IN  /\ (ImportCustomData(text) \/ ImportTofuOutput(text) \/ ImportClassData(text))
                 /\ ParseThrows(text) => NothingChanged
            /\ ImportCustomData(text) => NothingChanged \/ CustomApplied(text)
            /\ ImportTofuOutput(text) => NothingChanged \/ TofuApplied(text)
            /\ ImportClassData(text) => NothingChanged \/ LegacyApplied(text)
      ]_vars

(***************************************************************************)
(* Edits of the taxonomy and of the per-repository flags (both pages have  *)
(* these handlers; they differ in the persist function they end with).     *)
(***************************************************************************)
\* persistCustom() on the current page, persistClasses() on the legacy one.
SaveAnnotations ==
    store' = IF revision = "current"
             THEN persistCustom(store, classes', repoClasses', customUrls',
                                repoEnabled', repoDescriptions')
             ELSE persistClasses(store, LegacyBundle(classes', repoClasses', repoUrls',
                                                     repoEnabled', repoDescriptions'))

\* !repoEnabled[key]
Negated(obj, k) == IF k \in DOMAIN obj THEN ~obj[k] ELSE TRUE

\* part_000:726-732, +page.svelte:678-684: a click on the Enabled cell.
ToggleEnabled(row) ==
    /\ repoEnabled' = Put(repoEnabled, repoKey(row), Negated(repoEnabled, repoKey(row)))
    /\ UNCHANGED <<token, username, repos, loading, error, tofuUrls, classes,
                   repoClasses, customUrls, repoDescriptions, repoUrls, imported,
                   revision, calls, srv, pageSizes, tableVars>>
    /\ SaveAnnotations

\* part_000:885-900, +page.svelte:826-833: the class select of a row offers
\* "None" and every label of the taxonomy.
AssignClass(row) ==
    /\ \E v \in Range(classes) \cup {""} :
         repoClasses' = Put(repoClasses, repoKey(row), v)
    /\ UNCHANGED <<token, username, repos, loading, error, tofuUrls, classes,
                   customUrls, repoEnabled, repoDescriptions, repoUrls, imported,
                   revision, calls, srv, pageSizes, tableVars>>
    /\ SaveAnnotations

ClassInputs == {"web", "lib"}

\* part_000:557-566: Enter in the "Add class..." field; a label the
\* taxonomy includes is dropped without a save.
AddClass ==
    /\ \E name \in ClassInputs :
         /\ classes' = IF name \in Range(classes) THEN classes ELSE Append(classes, name)
         /\ UNCHANGED <<token, username, repos, loading, error, tofuUrls,
                        repoClasses, customUrls, repoEnabled, repoDescriptions,
                        repoUrls, imported, revision, calls, srv, pageSizes, tableVars>>
         /\ IF name \in Range(classes) THEN UNCHANGED store ELSE SaveAnnotations

DeleteClassClearing ==
    /\ \E cls \in Range(classes) :
         /\ classes' = SelectSeq(classes, LAMBDA c : c # cls)
         /\ repoClasses' = [k \in DOMAIN repoClasses |->
                              IF repoClasses[k] = cls THEN "" ELSE repoClasses[k]]
    /\ UNCHANGED <<token, username, repos, loading, error, tofuUrls,
                   customUrls, repoEnabled, repoDescriptions,
                   repoUrls, imported, revision, calls, srv, pageSizes, tableVars>>
    /\ SaveAnnotations

\* part_000:543-546: the delete button of a label.
DeleteClass ==
    /\ \E cls \in Range(classes) :
         classes' = SelectSeq(classes, LAMBDA c : c # cls)
    /\ UNCHANGED <<token, username, repos, loading, error, tofuUrls,
                   repoClasses, customUrls, repoEnabled, repoDescriptions,
                   repoUrls, imported, revision, calls, srv, pageSizes, tableVars>>
    /\ SaveAnnotations

(***************************************************************************)
(* Export of the annotations and the clipboard.                            *)
(***************************************************************************)
exportCustomDataNoEnabled(a) ==
    Stringify([f \in DOMAIN a \ {"repoEnabled"} |-> a[f]], 2)

\* part_000:373-379
exportCustomData(a) == Stringify(a, 2)

\* +page.svelte:340-346
exportClassData(a) == Stringify(a, 2)

\* part_000:403-405: Copy.
CopyCustomData ==
    /\ revision = "current"
    /\ clipboard' = exportCustomData(Custom)
    /\ UNCHANGED <<token, username, repos, loading, error, annotVars, store, calls,
                   srv, pageSizes, pagination, sorting, columnFilters>>

\* part_000:407-410: Paste, of what an earlier Copy left on the clipboard.
PasteCustomData ==
    /\ clipboard # NoItem
    /\ ImportCustomData(clipboard)

\* +page.svelte:377-379
CopyToClipboard ==
    /\ revision = "legacy"
    /\ clipboard' = exportClassData(Legacy)
    /\ UNCHANGED <<token, username, repos, loading, error, annotVars, store, calls,
                   srv, pageSizes, pagination, sorting, columnFilters>>

\* +page.svelte:381-384
PasteFromClipboard ==
    /\ clipboard # NoItem
    /\ ImportClassData(clipboard)

(***************************************************************************)
(* Export, edits and imports from outside, then import of the export.      *)
(***************************************************************************)
RoundTripStores ==
    { [EmptyStore EXCEPT !.repomgr_github = Stringify(SampleRepos, 0),
                         !.repomgr_custom = cu]
      : cu \in {NoItem, Stringify(SampleCustom, 0)} }

LegacyRoundTripStores ==
    { [st EXCEPT !.repomgr_repos = Stringify(SampleRepos, 0)] : st \in LegacyStores }

\* Bundles that reach the page from outside between an export and its
\* import.
OutsideCustomTexts ==
    { CustomDoc(CustomKeys, {}), CustomDoc({"repoClasses"}, CustomKeys \ {"repoClasses"}),
      [garbage |-> ""] }

OutsideLegacyTexts ==
    { LegacyDoc(LegacyKeys, "mapping"), LegacyDoc({"classes"}, "string"),
      LegacyDoc({"repoEnabled", "repoDescriptions"}, "none") }

InitRoundTrip ==
    /\ imported = NoImport
    /\ \/ /\ revision = "current"
          /\ \E st \in RoundTripStores : Mounted(st)
          /\ repoUrls = EmptyObj
       \/ /\ revision = "legacy"
          /\ \E st \in LegacyRoundTripStores : MountedLegacy(st)
    /\ calls = [i \in Slots |-> IdleCall]
    /\ srv = [i \in Slots |-> IdleHandler]
    /\ pageSizes = {MaxNodes}
    /\ TableInit

NextRoundTrip ==
    \/ CopyCustomData
    \/ PasteCustomData
    \/ CopyToClipboard
    \/ PasteFromClipboard
    \/ \E text \in OutsideCustomTexts : ImportCustomData(text)
    \/ \E text \in OutsideLegacyTexts : ImportClassData(text)
    \/ \E row \in Rows : ToggleEnabled(row)

SpecRoundTrip == InitRoundTrip /\ [][NextRoundTrip]_vars

\* C11: importing the text an export produced at a state S restores
\* classes, repoClasses, customUrls (repoUrls on the legacy page),
\* repoEnabled and repoDescriptions to their values in S, whatever edits
\* and imports happened since the export; and the exported text holds the
\* five fields as they are at the export.
C11_RoundTrip ==
    [][ /\ CopyCustomData => Parse(clipboard') = Custom
        /\ CopyToClipboard => Parse(clipboard') = Legacy
        /\ PasteCustomData =>
             \A f \in CustomKeys :
                f \in DOMAIN Parse(clipboard) /\ CustomAfter[f] = Parse(clipboard)[f]
        /\ PasteFromClipboard =>
             \A f \in LegacyKeys \cup {"repoUrls"} :
                f \in DOMAIN Parse(clipboard) /\ LegacyAfter[f] = Parse(clipboard)[f]
      ]_vars

\* An export taken after a toggle of bob/r1 was imported again after the
\* flags had been changed: memory is what the export holds.
C11_Witness ==
    /\ clipboard # NoItem
    /\ imported = [fn |-> "importCustomData", text |-> clipboard]
    /\ Custom = Parse(clipboard)
    /\ "bob/r1" \in DOMAIN repoEnabled /\ repoEnabled["bob/r1"]
    /\ store.repomgr_custom = Stringify(Custom, 0)

(***************************************************************************)
(* The format of the custom-URL layer after an import.                     *)
(***************************************************************************)
\* The custom-URL mapping an import text carries, if any.
ImportedUrls(text) ==
    LET o == ObjectOf(text)
    IN  IF revision = "current" /\ "customUrls" \in DOMAIN o THEN o.customUrls
        ELSE IF revision = "legacy" /\ "repoUrls" \in DOMAIN o THEN o.repoUrls
        ELSE EmptyObj

\* The custom-URL layer of the page that runs.
UrlLayer == IF revision = "current" THEN customUrls ELSE repoUrls

\* C12: after an import every value of the custom-URL layer is a
\* sequence; an imported entry that is a bare non-empty string s is stored
\* as <<s>>, a bare empty string as <<>>.
C12_ImportMigrates ==
    /\ \A k \in DOMAIN UrlLayer : UrlLayer[k].kind = "array"
    /\ \A k \in DOMAIN ImportedUrls(imported.text) :
         LET v == ImportedUrls(imported.text)[k]
         IN  v.kind = "string" =>
                /\ k \in DOMAIN UrlLayer
                /\ UrlLayer[k] = Arr(IF v.s = "" THEN <<>> ELSE <<v.s>>)

(***************************************************************************)
(* Imports of the shape {pages_urls: {value: {name: url}}}.                *)
(***************************************************************************)
\* The name-to-url mapping of a text of that shape (empty for other texts).
PagesValue(text) ==
    LET o == ObjectOf(text)
    IN  IF "pages_urls" \in DOMAIN o /\ "value" \in DOMAIN o.pages_urls
        THEN o.pages_urls.value
        ELSE EmptyObj

HasPagesValue(text) ==
    /\ "pages_urls" \in DOMAIN ObjectOf(text)
    /\ "value" \in DOMAIN ObjectOf(text).pages_urls

UrlLayerAfter == IF revision = "current" THEN customUrls' ELSE repoUrls'

\* The stored custom URLs of a name, none when the name has no entry.
UrlsOf(layer, name) == IF name \in DOMAIN layer THEN Spread(layer[name]) ELSE <<>>

\* Every non-empty url of the mapping is appended to the custom URLs of its
\* name; the custom URLs of every other name are as before.
Appended(value) ==
    \A name \in DOMAIN UrlLayer \cup DOMAIN UrlLayerAfter \cup DOMAIN value :
        UrlsOf(UrlLayerAfter, name) =
            IF name \in DOMAIN value /\ value[name] # ""
            THEN Append(UrlsOf(UrlLayer, name), value[name])
            ELSE UrlsOf(UrlLayer, name)

\* An import step of a text of the shape {pages_urls: {value: ...}} alone.
PagesImport(text) ==
    /\ HasPagesValue(text)
    /\ DOMAIN ObjectOf(text) = {"pages_urls"}
    /\ (ImportCustomData(text) \/ ImportTofuOutput(text) \/ ImportClassData(text))

\* C13 as stated: an import of the shape {pages_urls: {value: {name: url}}}
\* appends each non-empty url to the custom URLs of its name and leaves
\* the custom URLs of the other names unchanged.
C13_PagesUrlsAppended ==
    [][ PagesImport(imported'.text) => Appended(PagesValue(imported'.text)) ]_vars

\* C13, amended: the legacy importClassData appends as stated; on the
\* current page importTofuOutput replaces the infra URL map by the mapping
\* and neither it nor importCustomData changes a custom URL.
C13_AppendedOrInfra ==
    [][ LET text == imported'.text
        IN  PagesImport(text) =>
              IF revision = "legacy" THEN Appended(PagesValue(text))
              ELSE /\ customUrls' = customUrls
                   /\ ImportTofuOutput(text) => tofuUrls' = PagesValue(text)
                   /\ ImportCustomData(text) => tofuUrls' = tofuUrls
      ]_vars

\* The legacy page has appended the url of r1 to the custom URL it had.
C13_Witness ==
    /\ revision = "legacy"
    /\ imported.fn = "importClassData"
    /\ HasPagesValue(imported.text)
    /\ "r1" \in DOMAIN repoUrls
    /\ repoUrls["r1"] = Arr(<<"https://r1.example", "r1.tofu.dev">>)
    /\ "r2" \notin DOMAIN repoUrls

(***************************************************************************)
(* Export of the enabled repositories (part_000:417-437,                   *)
(* +page.svelte:386-406).  Of a record the model keeps the fields it has   *)
(* of a repository; Stars, Created and Size are copied from it unchanged.  *)
(***************************************************************************)
\* repoEnabled[repoKey(r)], as a condition.
IsEnabled(r) == repoKey(r) \in DOMAIN repoEnabled /\ repoEnabled[repoKey(r)]

\* part_000:421-434, +page.svelte:390-403
ProjectRecord(repo) ==
    [ Enabled     |-> TRUE,
      Owner       |-> repo.owner.login,
      Name        |-> repo.name,
      URLs        |-> IF revision = "current" THEN ResolvedUrls(repo)
                      ELSE IF repo.name \in DOMAIN repoUrls
                           THEN Spread(repoUrls[repo.name])
                           ELSE <<>>,
      Language    |-> IF repo.language = Null THEN "" ELSE repo.language,
      Type        |-> getType(repo),
      Commits     |-> IF "commits" \in DOMAIN repo THEN repo.commits ELSE "",
      Class       |-> FieldOr(repoClasses, repoKey(repo), ""),
      Description |-> Description(repo, repoDescriptions) ]

\* part_000:418-435
EnabledProjectData ==
    LET enabledRepos == SelectSeq(repos, IsEnabled)
    IN  [k \in 1..Len(enabledRepos) |-> ProjectRecord(enabledRepos[k])]

\* part_000:417-437: Export Enabled Project Data (Export Table on the
\* legacy page).
ExportEnabledProjectData ==
    /\ clipboard' = Stringify(EnabledProjectData, 2)
    /\ UNCHANGED <<token, username, repos, loading, error, annotVars, store, calls,
                   srv, pageSizes, pagination, sorting, columnFilters>>

ExportStores ==
    ViewStores \cup
    { [st EXCEPT !.repomgr_custom =
                    Stringify([SampleCustom EXCEPT !.customUrls = EmptyObj], 0)]
      : st \in ViewStores }

InitExport ==
    /\ imported = NoImport
    /\ \/ /\ revision = "current"
          /\ \E st \in ExportStores : Mounted(st)
          /\ repoUrls = EmptyObj
       \/ /\ revision = "legacy"
          /\ \E st \in LegacyRoundTripStores : MountedLegacy(st)
    /\ calls = [i \in Slots |-> IdleCall]
    /\ srv = [i \in Slots |-> IdleHandler]
    /\ pageSizes = {MaxNodes}
    /\ TableInit

NextExport ==
    \/ \E row \in Rows : ToggleEnabled(row)
    \/ ExportEnabledProjectData

SpecExport == InitExport /\ [][NextExport]_vars

\* The positions of the record list whose repository is enabled.
EnabledAt == {k \in 1..Len(repos) : IsEnabled(repos[k])}

\* The place the k-th repository has among the enabled ones.
RankOf(k) == Cardinality({j \in EnabledAt : j <= k})

\* The class label of a repository.
ClassLabelOf(r) ==
    IF repoKey(r) \in DOMAIN repoClasses THEN repoClasses[repoKey(r)] ELSE ""

\* The resolved description of a repository, by the rule of the
\* description column.
ResolvedDescriptionOf(r) ==
    IF repoKey(r) \in DOMAIN repoDescriptions /\ repoDescriptions[repoKey(r)] # ""
    THEN repoDescriptions[repoKey(r)]
    ELSE IF r.description # Null /\ r.description # "" THEN r.description
    ELSE ""

\* The resolved URL list of a repository: the infra URL of its bare name,
\* then the custom URLs of its owner-qualified key.
ResolvedUrlsOf(r) ==
    InfraPrefix(r.name) \o
      (IF revision = "current" THEN CustomUrlsUnder(repoKey(r))
       ELSE IF repoKey(r) \in DOMAIN repoUrls THEN Spread(repoUrls[repoKey(r)])
       ELSE <<>>)

\* C14: the export holds one record per enabled repository of the record
\* list and no other, in the order of the list, each with the type label,
\* the resolved URL list, the class label and the resolved description the
\* state has at the export.
C14_ExportEnabled ==
    [][ ExportEnabledProjectData =>
          LET out == Parse(clipboard')
          IN  /\ Len(out) = Cardinality(EnabledAt)
              /\ \A k \in EnabledAt :
                   LET rec == out[RankOf(k)]
                   IN  /\ rec.Owner = repos[k].owner.login
                       /\ rec.Name = repos[k].name
                       /\ rec.Type = getType(repos[k])
                       /\ rec.Class = ClassLabelOf(repos[k])
                       /\ rec.Description = ResolvedDescriptionOf(repos[k])
                       /\ rec.URLs = ResolvedUrlsOf(repos[k])
      ]_vars

(***************************************************************************)
(* The counts shown next to the filter options (part_000:107-164) and the  *)
(* handlers of the filter selects, the sortable headers and the page       *)
(* buttons.  The selects' own display values (languageFilter, typeFilter,  *)
(* ownerFilter, classFilter) follow the column filters and are left out.   *)
(***************************************************************************)
\* counts[k] || 0
CountOr(counts, k) == IF k \in DOMAIN counts THEN counts[k] ELSE 0

\* labels.reduce((acc, l) => { acc[l] = (acc[l] || 0) + 1; return acc }, {}):
\* a key for each label that occurs, holding the number of its occurrences.
Counts(labels) ==
    [l \in Range(labels) |-> Cardinality({k \in DOMAIN labels : labels[k] = l})]

\* part_000:107-116
languageCounts ==
    Counts([k \in DOMAIN repos |->
              IF repos[k].language \in {Null, Undefined} THEN "(none)"
              ELSE repos[k].language])

\* part_000:117-121
languages == DOMAIN languageCounts \ {"(none)"}

typeCountsOfFiltered ==
    LET rows == SelectSeq(repos, LAMBDA r : Passes(r, columnFilters))
    IN  Counts([k \in DOMAIN rows |-> getType(rows[k])])

\* part_000:126-135
typeCounts == Counts([k \in DOMAIN repos |-> getType(repos[k])])

\* part_000:136
sourceCount == CountOr(typeCounts, "Public") + CountOr(typeCounts, "Private")

\* part_000:137
types == {"Sources", "Public", "Private", "Fork"}

\* part_000:139-147
ownerCounts == Counts([k \in DOMAIN repos |-> repos[k].owner.login])

\* part_000:148
owners == DOMAIN ownerCounts

\* part_000:150-159
classCounts ==
    Counts([k \in DOMAIN repos |->
              IF repoKey(repos[k]) \in DOMAIN repoClasses
                 /\ Truthy(repoClasses[repoKey(repos[k])])
              THEN repoClasses[repoKey(repos[k])]
              ELSE "(none)"])

\* part_000:160-164
classesInData == DOMAIN classCounts \ {"(none)"}

\* setFilterValue(v || undefined) on the column named col, and what the
\* table then makes of the page index.
SetFilter(col, v) ==
    /\ columnFilters' = [columnFilters EXCEPT ![col] = IF v = "" THEN Undefined ELSE v]
    /\ pagination' = RepaginatedFor(repos, columnFilters')
    /\ UNCHANGED <<token, username, repos, loading, error, annotVars, store, calls, srv,
                   pageSizes, clipboard, sorting>>

\* part_000:588-605
SetOwnerFilter == \E v \in {""} \cup owners : SetFilter("owner", v)

\* part_000:606-623
SetLanguageFilter == \E v \in {""} \cup languages : SetFilter("language", v)

\* part_000:624-645
SetTypeFilter == \E v \in {""} \cup types : SetFilter("type", v)

\* part_000:646-666: "(none)" is offered only while some record has no class.
SetClassFilter ==
    \E v \in {""} \cup classesInData
             \cup (IF CountOr(classCounts, "(none)") > 0 THEN {"(none)"} ELSE {}) :
        SetFilter("class", v)

SortColumns == {"name", "type"}

\* part_000:698: a click on a column header; the sort cannot be removed
\* (part_000:305), so a second click flips the direction.
ToggleSort(col) ==
    /\ sorting' = IF sorting.id = col THEN [sorting EXCEPT !.desc = ~sorting.desc]
                  ELSE [id |-> col, desc |-> FALSE]
    /\ pagination' = RepaginatedFor(repos, columnFilters)
    /\ UNCHANGED <<token, username, repos, loading, error, annotVars, store, calls, srv,
                   pageSizes, clipboard, columnFilters>>

\* table.getCanNextPage()
getCanNextPage ==
    pagination.pageIndex < PageCountOf(Cardinality(FilteredAt(repos, columnFilters))) - 1

\* table.getCanPreviousPage()
getCanPreviousPage == pagination.pageIndex > 0

NextPageUnguarded ==
    /\ pagination.pageIndex < MaxPages
    /\ pagination' = [pagination EXCEPT !.pageIndex = @ + 1]
    /\ UNCHANGED <<token, username, repos, loading, error, annotVars, store, calls, srv,
                   pageSizes, clipboard, sorting, columnFilters>>

\* part_000:933-940: the Next button, disabled on the last page.
NextPage ==
    /\ getCanNextPage
    /\ pagination' = [pagination EXCEPT !.pageIndex = @ + 1]
    /\ UNCHANGED <<token, username, repos, loading, error, annotVars, store, calls, srv,
                   pageSizes, clipboard, sorting, columnFilters>>

\* part_000:925-932: the Previous button, disabled on the first page.
PreviousPage ==
    /\ getCanPreviousPage
    /\ pagination' = [pagination EXCEPT !.pageIndex = @ - 1]
    /\ UNCHANGED <<token, username, repos, loading, error, annotVars, store, calls, srv,
                   pageSizes, clipboard, sorting, columnFilters>>

(***************************************************************************)
(* The table over a loaded snapshot (SpecTable), and the table while the   *)
(* list is fetched again by user name (SpecPaging).                        *)
(***************************************************************************)
\* Six records of both owners: public, private and fork ones.
MixedRepos == [k \in 1..6 |-> RepoOfNode(GqlNode(k))]

\* A snapshot of more than one page of the table.
LongRepos == [k \in 1..(PageSize + PerPage - 1) |-> RestRepo(k, "octocat")]

\* Classes of some records: a key mapped to a label, a key mapped to the
\* empty string, and keys that are absent.
TableCustom ==
    CustomBundle(<<"web", "lib">>,
                 [k \in {"alice/r1", "bob/r1", "octocat/r1", "octocat/r2", "octocat/r5"} |->
                    CASE k \in {"alice/r1", "octocat/r1"} -> "web"
                      [] k = "octocat/r5" -> "lib"
                      [] OTHER -> ""],
                 EmptyObj, EmptyObj, EmptyObj)

TableStores ==
    { [EmptyStore EXCEPT !.repomgr_token = [raw |-> ""],
                         !.repomgr_username = [raw |-> "octocat"],
                         !.repomgr_github = gh,
                         !.repomgr_custom = Stringify(TableCustom, 0)]
      : gh \in {NoItem, Stringify(MixedRepos, 0), Stringify(LongRepos, 0)} }

InitTable ==
    /\ revision = "current"
    /\ imported = NoImport
    /\ \E st \in TableStores : Mounted(st)
    /\ repoUrls = EmptyObj
    /\ calls = [i \in Slots |-> IdleCall]
    /\ srv = [i \in Slots |-> IdleHandler]
    /\ pageSizes = {MaxNodes}
    /\ TableInit

NextTable ==
    \/ SetOwnerFilter
    \/ SetLanguageFilter
    \/ SetTypeFilter
    \/ SetClassFilter
    \/ \E col \in SortColumns : ToggleSort(col)
    \/ NextPage
    \/ PreviousPage

SpecTable == InitTable /\ [][NextTable]_vars

NextPaging ==
    \/ SetTypeFilter
    \/ \E col \in SortColumns : ToggleSort(col)
    \/ NextPage
    \/ PreviousPage
    \/ FetchClick
    \/ \E i \in Slots : FetchRestAnswer(i)

SpecPaging == InitTable /\ [][NextPaging]_vars

(***************************************************************************)
(* Properties of the table (SpecTable).                                    *)
(***************************************************************************)
\* The column filters that are set.
ActiveFilters == {c \in DOMAIN NoFilters : columnFilters[c] # Undefined}

\* The filtered set of the current state.
Filtered == FilteredAt(repos, columnFilters)

\* The type label of a record, as the claim words it.
TypeLabel(r) == IF r.fork THEN "Fork" ELSE IF r.private THEN "Private" ELSE "Public"

\* C15: with the type filter alone set to "Sources" the filtered set is
\* exactly the records labelled "Public" or "Private" (every non-fork
\* record and no fork); with the type filter alone set to another value v
\* it is exactly the records whose type label is v.
C15_TypeFilter ==
    ActiveFilters = {"type"} =>
        /\ columnFilters.type = "Sources" =>
             /\ Filtered = {k \in DOMAIN repos : TypeLabel(repos[k]) \in {"Public", "Private"}}
             /\ Filtered = {k \in DOMAIN repos : ~repos[k].fork}
        /\ columnFilters.type # "Sources" =>
             Filtered = {k \in DOMAIN repos : TypeLabel(repos[k]) = columnFilters.type}

C15_Witness ==
    /\ ActiveFilters = {"type"}
    /\ columnFilters.type = "Sources"
    /\ \E k \in DOMAIN repos : repos[k].fork
    /\ \E k \in DOMAIN repos : repos[k].private /\ ~repos[k].fork /\ k \in Filtered
    /\ \E k \in DOMAIN repos : ~repos[k].private /\ ~repos[k].fork /\ k \in Filtered
    /\ sorting.id = "type"

\* The class label of the record at position k.
LabelAt(k) == ClassLabelOf(repos[k])

\* The records that pass the filters other than the class filter.
FilteredBut(col) == FilteredAt(repos, [columnFilters EXCEPT ![col] = Undefined])

\* C16: with the class filter set to "(none)" a record passes exactly when
\* its class label is empty, whether its key is absent from repoClasses or
\* mapped to the empty string; a record with a non-empty label never
\* passes.  The records that pass are as many as the "(none)" count says.
C16_ClassFilterNone ==
    columnFilters.class = "(none)" =>
        /\ Filtered = {k \in FilteredBut("class") : LabelAt(k) = ""}
        /\ \A k \in Filtered : LabelAt(k) = ""
        /\ ActiveFilters = {"class"} =>
             Cardinality(Filtered) = CountOr(classCounts, "(none)")

C16_Witness ==
    /\ ActiveFilters = {"class"}
    /\ columnFilters.class = "(none)"
    /\ \E k \in Filtered : repoKey(repos[k]) \notin DOMAIN repoClasses
    /\ \E k \in Filtered : /\ repoKey(repos[k]) \in DOMAIN repoClasses
                           /\ repoClasses[repoKey(repos[k])] = ""
    /\ \E k \in DOMAIN repos : LabelAt(k) # "" /\ k \notin Filtered

\* The sum of the values of a count map.
RECURSIVE SumOf(_)
SumOf(counts) ==
    IF DOMAIN counts = {} THEN 0
    ELSE LET l == CHOOSE x \in DOMAIN counts : TRUE
         IN  counts[l] + SumOf([x \in DOMAIN counts \ {l} |-> counts[x]])

\* The four count maps and the "Sources" count.
AllCounts == <<languageCounts, ownerCounts, typeCounts, classCounts, sourceCount>>

\* How many records of the whole list carry the type label l.
Labelled(l) == Cardinality({k \in DOMAIN repos : TypeLabel(repos[k]) = l})

\* C17: the per-language, per-owner, per-type and per-class counts are
\* those of the whole record list whatever the filters: each map's values
\* sum to the number of records, the type counts are those of the whole
\* list, the "Sources" count is the Public count plus the Private count,
\* and a change of a filter leaves all of them unchanged.
C17_CountsUnfiltered ==
    /\ [](/\ SumOf(languageCounts) = Len(repos)
          /\ SumOf(ownerCounts) = Len(repos)
          /\ SumOf(typeCounts) = Len(repos)
          /\ SumOf(classCounts) = Len(repos)
          /\ \A l \in {"Public", "Private", "Fork"} : CountOr(typeCounts, l) = Labelled(l)
          /\ sourceCount = Labelled("Public") + Labelled("Private"))
    /\ [][columnFilters' # columnFilters => AllCounts' = AllCounts]_vars

C17_Witness ==
    /\ Cardinality(ActiveFilters) >= 2
    /\ Filtered # {}
    /\ Cardinality(Filtered) < Len(repos)
    /\ CountOr(typeCounts, "Fork") > 0
    /\ CountOr(typeCounts, "Private") > 0
    /\ CountOr(classCounts, "(none)") > 0
    /\ SumOf(typeCounts) = Len(repos)

EditStores ==
    { [EmptyStore EXCEPT !.repomgr_github = Stringify(<<RepoOfNode(GqlNode(1))>>, 0),
                         !.repomgr_custom = cu]
      : cu \in {NoItem, Stringify(SampleCustom, 0)} }

\* The texts handed to the import: a bundle, and texts that are malformed,
\* null or not an object.
EditTexts ==
    { CustomDoc(CustomKeys, {}), [garbage |-> ""], [scalar |-> "null"], [scalar |-> "5"] }

InitEdit ==
    /\ revision = "current"
    /\ imported = NoImport
    /\ \E st \in EditStores : Mounted(st)
    /\ repoUrls = EmptyObj
    /\ calls = [i \in Slots |-> IdleCall]
    /\ srv = [i \in Slots |-> IdleHandler]
    /\ pageSizes = {MaxNodes}
    /\ TableInit

NextEdit ==
    \/ \E row \in Rows : ToggleEnabled(row)
    \/ \E row \in Rows : AssignClass(row)
    \/ \E row \in Rows : AddCustomUrl(row)
    \/ \E row \in Rows : EditCustomUrl(row)
    \/ \E row \in Rows : RemoveCustomUrl(row)
    \/ \E row \in Rows : EditDescription(row)
    \/ \E row \in Rows : ClearOverride(row)
    \/ AddClass
    \/ DeleteClass
    \/ \E text \in EditTexts : ImportCustomData(text)

SpecEdit == InitEdit /\ [][NextEdit]_vars

\* The persisted annotation bundle is the serialization of memory.
StoreIsCurrent == store.repomgr_custom = Stringify(Custom, 0)

\* C19: every edit of the annotations (enabled toggle, class assignment,
\* custom URL add, edit and remove, description edit and clear, class add
\* and delete, import) ends with the persisted bundle equal to the
\* serialization of classes, repoClasses, customUrls, repoEnabled and
\* repoDescriptions as they are in memory; a handler that leaves the store
\* alone (a label the taxonomy already has, an import that fails) leaves
\* memory alone too, and a store that is current stays current.
C19_StoreFollowsEdits ==
    [][ /\ StoreIsCurrent' \/ (Custom' = Custom /\ store'.repomgr_custom = store.repomgr_custom)
        /\ Custom' # Custom => StoreIsCurrent'
        /\ StoreIsCurrent => StoreIsCurrent' ]_vars

\* Every kind of edit has been made on a page that started with an empty
\* store, and the store holds them all.
C19_Witness ==
    /\ StoreIsCurrent
    /\ imported = NoImport
    /\ classes = <<"lib">>
    /\ repoClasses = [k \in {"alice/r1"} |-> "lib"]
    /\ repoEnabled = [k \in {"alice/r1"} |-> TRUE]
    /\ repoDescriptions = [k \in {"alice/r1"} |-> "mine"]
    /\ customUrls = [k \in {"r1"} |-> Arr(<<"https://a.example">>)]

(***************************************************************************)
(* fetchRepos invoked again while it runs (SpecRace): the first invocation *)
(* comes from the button, the later ones from direct calls, all by user    *)
(* name.                                                                   *)
(***************************************************************************)
RaceStores ==
    { [EmptyStore EXCEPT !.repomgr_token = [raw |-> ""],
                         !.repomgr_username = [raw |-> "octocat"],
                         !.repomgr_github = gh]
      : gh \in {NoItem, Stringify(SampleRepos, 0)} }

InitRace ==
    /\ revision = "current"
    /\ imported = NoImport
    /\ \E st \in RaceStores : Mounted(st)
    /\ repoUrls = EmptyObj
    /\ calls = [i \in Slots |-> IdleCall]
    /\ srv = [i \in Slots |-> IdleHandler]
    /\ pageSizes = {MaxNodes}
    /\ TableInit

\* The button starts the first invocation only.
FirstClick == calls[1] = IdleCall /\ FetchClick

NextRace ==
    \/ FirstClick
    \/ FetchInvoke
    \/ \E i \in Slots : FetchRestAnswer(i)

SpecRace == InitRace /\ [][NextRace]_vars

\* The invocations in flight.
InFlight == {i \in Slots : calls[i].pc # "idle"}

\* The invocations that were started.
Started == {i \in Slots : calls[i] # IdleCall}

\* This step is the completion of invocation i.
Completes(i) == calls[i].pc # "idle" /\ calls'[i].pc = "idle"

\* The persisted snapshot.
Persisted == IF store.repomgr_github = NoItem THEN NoItem ELSE Parse(store.repomgr_github)

\* C20 as stated: an invocation made while another is in flight starts
\* its own loop, a step of one invocation leaves the others as they are,
\* and when the last of several invocations completes, the record list and
\* the persisted snapshot are its result (its list, or no records when it
\* failed).
C20_LastCompletionIsResult ==
    [][ \A i \in Slots :
          /\ (i \in InFlight' \ InFlight)
               => /\ calls'[i] = FetchBegin(token, username)
                  /\ \A j \in Slots \ {i} : calls'[j] = calls[j]
          /\ (i \in InFlight /\ calls'[i] # calls[i])
               => \A j \in Slots \ {i} : calls'[j] = calls[j]
          /\ (Completes(i) /\ InFlight' = {} /\ Cardinality(Started) >= 2)
               => LET result == IF calls'[i].outcome = "ok" THEN calls'[i].allRepos
                                ELSE <<>>
                  IN  repos' = result /\ Persisted' = result ]_vars

\* C20, amended: an invocation made while another is in flight starts its
\* own loop and a step of one invocation leaves the others as they are;
\* every in-flight invocation can take its next step; a completion that
\* succeeds sets the record list and the persisted snapshot to its list,
\* and a completion that fails empties the record list and leaves the
\* persisted snapshot as it was.  So the record list is the result of the
\* invocation that completed last and the snapshot that of the successful
\* invocation that completed last.
C20_LastCompletionWins ==
    /\ [](\A i \in InFlight : ENABLED FetchRestAnswer(i))
    /\ [][ \A i \in Slots :
             /\ (i \in InFlight' \ InFlight)
                  => /\ calls'[i] = FetchBegin(token, username)
                     /\ \A j \in Slots \ {i} : calls'[j] = calls[j]
             /\ (i \in InFlight /\ calls'[i] # calls[i])
                  => \A j \in Slots \ {i} : calls'[j] = calls[j]
             /\ (Completes(i) /\ calls'[i].outcome = "ok")
                  => repos' = calls'[i].allRepos /\ Persisted' = calls'[i].allRepos
             /\ (Completes(i) /\ calls'[i].outcome # "ok")
                  => repos' = <<>> /\ Persisted' = Persisted ]_vars

\* Two invocations overlapped and both completed: the first with a list,
\* which is the persisted snapshot, the second with a failure, which
\* emptied the record list.
C20_Witness ==
    /\ InFlight = {}
    /\ calls[1].outcome = "ok" /\ calls[1].allRepos # <<>>
    /\ calls[2].outcome = "fail"
    /\ Len(calls[2].got) > Len(calls[1].got)
    /\ repos = <<>>
    /\ error = calls[2].msg
    /\ Persisted = calls[1].allRepos

(***************************************************************************)
(* The taxonomy and the class labels of the rows (SpecClasses).            *)
(***************************************************************************)
ClassStores ==
    { [EmptyStore EXCEPT !.repomgr_github = Stringify(SampleRepos, 0),
                         !.repomgr_custom = cu]
      : cu \in {NoItem, Stringify(SampleCustom, 0)} }

InitClasses ==
    /\ revision = "current"
    /\ imported = NoImport
    /\ \E st \in ClassStores : Mounted(st)
    /\ repoUrls = EmptyObj
    /\ calls = [i \in Slots |-> IdleCall]
    /\ srv = [i \in Slots |-> IdleHandler]
    /\ pageSizes = {MaxNodes}
    /\ TableInit

\* Bundles that carry a taxonomy only: one label, and one label twice.
TaxonomyTexts ==
    { [json |-> [f \in {"classes"} |-> <<"lib">>], indent |-> 2],
      [json |-> [f \in {"classes"} |-> <<"web", "web">>], indent |-> 2] }

NextClasses ==
    \/ AddClass
    \/ DeleteClass
    \/ \E row \in Rows : AssignClass(row)
    \/ SetClassFilter
    \/ \E text \in TaxonomyTexts : ImportCustomData(text)

SpecClasses == InitClasses /\ [][NextClasses]_vars

\* The positions of the records whose class label is l.
WithLabel(l) == {k \in DOMAIN repos : LabelAt(k) = l}

\* The records a class filter equal to l, set alone, lets pass.
MatchedBy(l) == FilteredAt(repos, [NoFilters EXCEPT !.class = l])

\* C21: a step of the delete button, which takes a label from the
\* taxonomy, leaves repoClasses
\* unchanged: every repository that had the deleted label still has it, is
\* still counted under it and is still matched by a class filter equal to
\* it.
C21_DeleteKeepsLabels ==
    [][ DeleteClass => \A l \in Range(classes) \ Range(classes') :
          /\ repoClasses' = repoClasses
          /\ WithLabel(l)' = WithLabel(l)
          /\ CountOr(classCounts, l)' = Cardinality(WithLabel(l))
          /\ MatchedBy(l)' = WithLabel(l) ]_vars

\* A label that rows carry was deleted from the taxonomy; the class filter
\* set to it still shows the row.
C21_Witness ==
    /\ imported = NoImport
    /\ "web" \notin Range(classes)
    /\ LabelAt(1) = "web"
    /\ CountOr(classCounts, "web") = 1
    /\ columnFilters.class = "web"
    /\ 1 \in Filtered

(***************************************************************************)
(* More properties of the reconciled view (SpecView).                      *)
(***************************************************************************)
\* This step is an add, an edit or a removal of a custom URL in the row.
EditsUrlsOf(row) == AddCustomUrl(row) \/ EditCustomUrl(row) \/ RemoveCustomUrl(row)

\* C22: the custom URLs belong to the owner-qualified repo key: for two
\* fetched repositories with the same bare name and different owners, an
\* add, edit or removal of a custom URL in the row of one leaves the custom
\* URLs and the resolved URLs of the other unchanged.
C22_UrlEditsStayInRow ==
    [][ \A row \in Rows : \A other \in Rows :
          (EditsUrlsOf(row) /\ other.name = row.name /\ other.owner # row.owner)
            => /\ repoCustomUrls(other.name)' = repoCustomUrls(other.name)
               /\ ResolvedUrls(other)' = ResolvedUrls(other) ]_vars

\* C23: no resolved URL list of a fetched repository holds an empty
\* string, also after a custom URL was edited in place to the empty string
\* or imported as one.
C23_NoEmptyResolvedUrl ==
    \A row \in Rows : \A i \in DOMAIN ResolvedUrls(row) : ResolvedUrls(row)[i] # ""

(***************************************************************************)
(* The taxonomy (SpecClasses).                                             *)
(***************************************************************************)
\* C24: the class taxonomy is a sequence of pairwise distinct labels in
\* every state reached by class adds, class deletes, imports and the
\* startup load.
C24_DistinctLabels ==
    \A i \in DOMAIN classes : \A j \in DOMAIN classes : i # j => classes[i] # classes[j]

(***************************************************************************)
(* More properties of the endpoint (SpecPost).                             *)
(***************************************************************************)
\* C25: the first request of a handler run carries the cursor null, and
\* the request after the i-th answer carries the endCursor that answer
\* reported; no cursor is sent twice and none is skipped.
C25_CursorProtocol ==
    LET h == srv[1]
    IN  /\ Len(h.sent) >= 1 => h.sent[1] = Null
        /\ Len(h.sent) - Len(h.served) \in {0, 1}
        /\ \A i \in 1..(Len(h.sent) - 1) :
              /\ IsPage(h.served[i])
              /\ PageInfoOf(h.served[i]).hasNextPage
              /\ h.sent[i + 1] = PageInfoOf(h.served[i]).endCursor
              /\ h.sent[i + 1] = Cursor(i)
        /\ \A i \in DOMAIN h.sent : \A j \in DOMAIN h.sent : i # j => h.sent[i] # h.sent[j]

C25_Witness ==
    /\ srv[1].pc = "done"
    /\ Len(srv[1].sent) = MaxPages
    /\ Len(srv[1].served) = MaxPages
    /\ srv[1].sent[MaxPages] = PageInfoOf(srv[1].served[MaxPages - 1]).endCursor

\* The handler answered with a repos list and no error field.
RespondsSuccess(h) ==
    h.pc = "done" /\ h.response # NoResponse /\ "error" \notin DOMAIN h.response.body

\* C26: the handler answers with a success only when the pagination ran
\* to exhaustion: every answer of the remote was a page and the last one
\* reported hasNextPage = false.  An answer with a success status and
\* neither data nor errors gives no success that holds the pages gathered
\* before it.
C26_SuccessMeansExhausted ==
    RespondsSuccess(srv[1]) =>
        /\ Exhausted(srv[1].served)
        /\ Len(srv[1].response.body.repos) = Len(AllNodes(srv[1].served))

(***************************************************************************)
(* More properties of the page fetching (SpecFetch).                       *)
(***************************************************************************)
\* The store holds a non-empty snapshot of the record list.
HasSnapshot ==
    IF store.repomgr_github = NoItem THEN FALSE ELSE Parse(store.repomgr_github) # <<>>

\* C27: the step that ends a fetchRepos invocation in failure leaves the
\* record list empty, the error message non-empty and loading false, and
\* writes nothing: the record list then differs from the persisted
\* snapshot whenever that is non-empty, and the four count maps are empty.
C27_FailureEmptiesList ==
    [][ \A i \in Slots :
          (Completes(i) /\ calls'[i].outcome = "fail")
            => /\ repos' = <<>>
               /\ error' # ""
               /\ error' = calls'[i].msg
               /\ loading' = FALSE
               /\ store' = store
               /\ HasSnapshot => repos' # Persisted'
               /\ DOMAIN languageCounts' = {}
               /\ DOMAIN ownerCounts' = {}
               /\ DOMAIN typeCounts' = {}
               /\ DOMAIN classCounts' = {}
               /\ sourceCount' = 0 ]_vars

\* A refetch failed over a non-empty snapshot.
C27_Witness ==
    /\ \E i \in Slots : calls[i].pc = "idle" /\ calls[i].outcome = "fail"
                        /\ error = calls[i].msg
    /\ InFlight = {}
    /\ repos = <<>>
    /\ ~loading
    /\ HasSnapshot
    /\ Persisted = SampleRepos
    /\ DOMAIN typeCounts = {}

\* The endpoint's handler of slot i is working for an invocation.
HandlerBusy(i) == srv[i].pc \notin {"idle", "done"}

\* C28: with the Fetch Repos button as the only trigger, at most one
\* fetchRepos invocation is in flight in every reachable state; loading is
\* true in every state where an invocation is in flight (so it was set
\* before the first request went out), the endpoint works for no
\* invocation other than the one in flight, and the button cannot be
\* clicked while loading is true.
C28_OneInFlight ==
    /\ Cardinality(InFlight) <= 1
    /\ InFlight # {} => loading
    /\ \A i \in Slots : HandlerBusy(i) => i \in InFlight /\ loading
    /\ loading => ~ENABLED FetchClick

\* An invocation on the no-token path waits for its second page while the
\* page shows Loading.
C28_Witness ==
    /\ \E i \in Slots : calls[i].pc = "rest" /\ calls[i].page = 2
    /\ loading
    /\ ~ENABLED FetchClick

(***************************************************************************)
(* Reload: the startup load run against the store as it stands             *)
(* (part_000:338-354, +page.svelte:300-324), after annotation edits,       *)
(* imports and fetches on either page (SpecReload).                        *)
(***************************************************************************)
\* What onMount assigns from the store st, as a record; urls is customUrls
\* on the current page and repoUrls on the legacy one.
Loaded(st) ==
    IF revision = "current"
    THEN LET custom == IF st.repomgr_custom = NoItem THEN EmptyObj
                       ELSE Parse(st.repomgr_custom)
         IN  [ repos            |-> ParsedOr(st.repomgr_github, <<>>),
               tofuUrls         |-> ParsedOr(st.repomgr_tofu_urls, EmptyObj),
               classes          |-> FieldOr(custom, "classes", <<>>),
               repoClasses      |-> FieldOr(custom, "repoClasses", EmptyObj),
               urls             |-> FieldOr(custom, "customUrls", EmptyObj),
               repoEnabled      |-> FieldOr(custom, "repoEnabled", EmptyObj),
               repoDescriptions |-> FieldOr(custom, "repoDescriptions", EmptyObj) ]
    ELSE [ repos            |-> ParsedOr(st.repomgr_repos, <<>>),
           tofuUrls         |-> EmptyObj,
           classes          |-> ParsedOr(st.repomgr_classes, <<>>),
           repoClasses      |-> ParsedOr(st.repomgr_repo_classes, EmptyObj),
           urls             |-> Migrate(ParsedOr(st.repomgr_repo_urls, EmptyObj)),
           repoEnabled      |-> ParsedOr(st.repomgr_repo_enabled, EmptyObj),
           repoDescriptions |-> ParsedOr(st.repomgr_repo_descriptions, EmptyObj) ]

\* Stores of an earlier session of each page: a token, a snapshot of one
\* record, and annotations or none.
ReloadStores ==
    { [EmptyStore EXCEPT !.repomgr_token = [raw |-> "ghp_x"],
                         !.repomgr_github = Stringify(<<RepoOfNode(GqlNode(1))>>, 0),
                         !.repomgr_custom = cu]
      : cu \in {NoItem, Stringify(SampleCustom, 0)} }

LegacyReloadStores ==
    { [st EXCEPT !.repomgr_token = [raw |-> "ghp_x"],
                 !.repomgr_repos = Stringify(<<RepoOfNode(GqlNode(1))>>, 0)]
      : st \in LegacyStores }

\* The texts imported: an annotation bundle, a tofu output, a legacy bundle
\* with a mapping under repoUrls and one with a bare string there.
ReloadCustomTexts == { CustomDoc(CustomKeys, {}) }

ReloadTofuTexts ==
    { t \in TofuDocs : /\ "value" \in DOMAIN t.json.pages_urls
                       /\ DOMAIN t.json.pages_urls.value # {} }

ReloadLegacyTexts == { LegacyDoc({"classes"}, u) : u \in {"mapping", "string"} }

InitReload ==
    /\ imported = NoImport
    /\ \/ /\ revision = "current"
          /\ \E st \in ReloadStores : Mounted(st)
          /\ repoUrls = EmptyObj
       \/ /\ revision = "legacy"
          /\ \E st \in LegacyReloadStores : MountedLegacy(st)
    /\ calls = [i \in Slots |-> IdleCall]
    /\ srv = [i \in Slots |-> IdleHandler]
    /\ pageSizes = {1}
    /\ TableInit

\* The row whose cells are edited: the first of the list.
FirstRow == {repos[k] : k \in DOMAIN repos \cap {1}}

NextReload ==
    \/ \E row \in FirstRow : ToggleEnabled(row)
    \/ \E row \in FirstRow : AssignClass(row)
    \/ AddClass
    \/ revision = "current" /\ \E row \in FirstRow : AddCustomUrl(row)
    \/ \E text \in ReloadCustomTexts : ImportCustomData(text)
    \/ \E text \in ReloadTofuTexts : ImportTofuOutput(text)
    \/ \E text \in ReloadLegacyTexts : ImportClassData(text)
    \/ FetchClick
    \/ PostStep(1)
    \/ PostAnswer(1)
    \/ FetchApiReturn(1)
    \/ Blur

SpecReload == InitReload /\ [][NextReload]_vars

\* C29: in every state reached by annotation edits, imports and fetches,
\* the startup load run against the store as it then stands yields the
\* taxonomy, the class assignments, the custom URLs, the enabled flags, the
\* description overrides and the infra URL map that memory holds, and a
\* record list equal to the persisted snapshot (which is the list in memory
\* unless a fetch is under way or the last one failed).
C29_ReloadRoundTrip ==
    LET l == Loaded(store)
    IN  /\ l.classes = classes
        /\ l.repoClasses = repoClasses
        /\ l.urls = UrlLayer
        /\ l.repoEnabled = repoEnabled
        /\ l.repoDescriptions = repoDescriptions
        /\ l.tofuUrls = tofuUrls
        /\ (~loading /\ error = "") => l.repos = repos

(***************************************************************************)
(* Progress of the page fetching (SpecFetchFair): every request that was   *)
(* issued is answered and every continuation that was scheduled runs.  The *)
(* remote ends the pagination within MaxPages pages.  The user is not      *)
(* obliged to click or to leave a field.                                   *)
(***************************************************************************)
FetchFairness ==
    \A i \in Slots :
        /\ WF_vars(PostStep(i))
        /\ WF_vars(PostAnswer(i))
        /\ WF_vars(FetchApiReturn(i))
        /\ WF_vars(FetchRestAnswer(i))

SpecFetchFair == InitFetch /\ [][NextFetch]_vars /\ FetchFairness

\* C30: every fetchRepos invocation that was started eventually completes,
\* by success or by failure, and leaves loading = false, provided every
\* request is answered and the remote ends the pagination.
C30_FetchCompletes ==
    \A i \in Slots :
        (calls[i].pc # "idle") ~> (calls[i].pc = "idle" /\ ~loading)

\* An invocation has failed on its second page and one has succeeded, and
\* the page is idle again.
C30_Witness ==
    /\ ~loading
    /\ InFlight = {}
    /\ \E i \in Slots :
         /\ calls[i].outcome \in {"ok", "fail"}
         /\ Len(calls[i].got) >= 2 \/ Len(srv[i].served) >= 2

=============================================================================
